---- MODULE Spec2Model ----
(***************************************************************************)
(* Wardrobe API (ropabase-backend): the session protocol of                *)
(* controllers/auth.controller.js and the ownership checks of              *)
(* controllers/clothing.controller.js, as state machines over the user     *)
(* store, the item store, the clock and the last request/response.         *)
(***************************************************************************)
EXTENDS Integers, Sequences, FiniteSets, TLC

\* ------------------------------------------------------------------------
\* Bounds of the model
\* ------------------------------------------------------------------------
MaxUsers == 2
MaxTicks == 1
MaxItems == 2
MaxUploads == 1

\* ------------------------------------------------------------------------
\* Program constants
\* ------------------------------------------------------------------------
\* expiresIn: '15m' and '7d', in the seconds jsonwebtoken counts in
ACCESS_TTL == 900
REFRESH_TTL == 604800

HTTP_OK == 200
HTTP_CREATED == 201
HTTP_NO_CONTENT == 204
HTTP_BAD_REQUEST == 400
HTTP_UNAUTHORIZED == 401
HTTP_FORBIDDEN == 403
HTTP_NOT_FOUND == 404
HTTP_CONFLICT == 409
HTTP_INTERNAL_SERVER_ERROR == 500

JWT_SECRET == "JWT_SECRET"
\* one secret for both kinds of token
JWT_REFRESH_SECRET_SameAsAccess == "JWT_SECRET"

JWT_REFRESH_SECRET == "JWT_REFRESH_SECRET"

VARIABLES users, now, ticks, req, res, calls, track,
          items, wardrobe, assets, created, uploads, procs

sessionVars == <<users, now, ticks, track>>
clothingVars == <<items, wardrobe, assets, created, uploads>>
vars == <<users, now, ticks, req, res, calls, track,
          items, wardrobe, assets, created, uploads, procs>>

\* ------------------------------------------------------------------------
\* Values
\* ------------------------------------------------------------------------
UserIds == 1..MaxUsers

\* the requests being handled step by step: none when every request runs
\* from its first line to its response without another in between
NoProcs == [p \in {} |-> 0]
NoId == 0

\* an absent body field or cookie (undefined and '' are both falsy)
Absent == ""
Emails == {"A@x", "b@x"}
Passwords == {"pw1", "pw2"}

\* userSchema.email: lowercase, trim
NormEmail(e) == IF e = "A@x" THEN "a@x" ELSE e

\* a cookie value: nothing, a string that is no JWT, or a JWT
NoCookie == [kind |-> "absent"]
Garbage == [kind |-> "garbage"]
NoHash == [kind |-> "unset"]

\* jwt.sign(payload, secret, {expiresIn}): HS256 over {userId, iat, exp};
\* the token is a function of payload, secret and the second it is signed in
jwtSign(userId, secret, ttl, clock) ==
  [kind |-> "jwt", userId |-> userId, secret |-> secret,
   iat |-> clock, exp |-> clock + ttl]

\* jwt.decode in place of jwt.verify: neither signature nor expiry is checked
jwtVerifies_DecodeOnly(token, secret, clock) == token.kind = "jwt"

\* jwt.verify(token, secret): throws unless well formed, signed with secret
\* and not expired (clock >= exp is expired)
jwtVerifies(token, secret, clock) ==
  /\ token.kind = "jwt"
  /\ token.secret = secret
  /\ clock < token.exp

\* hashToken: SHA-256 hex digest of the token string
hashToken(token) == [kind |-> "sha256", of |-> token]

\* bcrypt.hash / bcrypt.compare
bcryptHash(password) == [kind |-> "bcrypt", of |-> password]

\* the password compared with the stored hash as two strings
bcryptCompare_StringEquality(password, hashed) == hashed = [kind |-> "plain", of |-> password]

bcryptCompare(password, hashed) == hashed.of = password

\* ------------------------------------------------------------------------
\* Responses
\* ------------------------------------------------------------------------
NoCookies == [n \in {} |-> NoCookie]

Response(op, status, message) ==
  [op |-> op, status |-> status, message |-> message,
   cookies |-> NoCookies, cleared |-> {}, userId |-> NoId]

\* sendErrorResponse(res, message, status)
sendErrorResponse(op, message, status) == Response(op, status, message)

\* every store error is answered as a validation failure
handleDatabaseError_ValidationOnly(op, errName) ==
  sendErrorResponse(op, "Validation error", HTTP_BAD_REQUEST)

\* handleDatabaseError(res, error, action)
handleDatabaseError(op, errName) ==
  IF errName = "ValidationError"
    THEN sendErrorResponse(op, "Validation error", HTTP_BAD_REQUEST)
  ELSE IF errName = "CastError"
    THEN sendErrorResponse(op, "Resource not found", HTTP_NOT_FOUND)
  ELSE sendErrorResponse(op, "Internal server error", HTTP_INTERNAL_SERVER_ERROR)

ErrNames == {"ValidationError", "CastError", "MongoNetworkError"}

\* ------------------------------------------------------------------------
\* User store
\* ------------------------------------------------------------------------
\* the email of the query compared as typed, without the schema's setters
findOneByEmail_NoQuerySetter(store, email) ==
  IF \E u \in DOMAIN store : store[u].email = email
    THEN CHOOSE u \in DOMAIN store : store[u].email = email
    ELSE NoId

\* User.findOne({ email })
findOneByEmail(store, email) ==
  IF \E u \in DOMAIN store : store[u].email = NormEmail(email)
    THEN CHOOSE u \in DOMAIN store : store[u].email = NormEmail(email)
    ELSE NoId

\* User.findOne({ refreshToken: hash })
findOneByRefreshToken(store, hash) ==
  IF \E u \in DOMAIN store : store[u].refreshToken = hash
    THEN CHOOSE u \in DOMAIN store : store[u].refreshToken = hash
    ELSE NoId

NewUserId(store) == CHOOSE u \in UserIds \ DOMAIN store : \A v \in UserIds \ DOMAIN store : u <= v

Range(f) == {f[x] : x \in DOMAIN f}

\* What a handler does: its response, the user store it leaves and the
\* store and library calls it made, in order
Outcome(response, store, made) == [res |-> response, users |-> store, calls |-> made]

\* ------------------------------------------------------------------------
\* register: POST /api/auth/register
\* ------------------------------------------------------------------------
register(store, body, fault, errName) ==
  IF body.email = Absent \/ body.password = Absent
    THEN Outcome(sendErrorResponse("register", "Email and password are required", HTTP_BAD_REQUEST),
                 store, <<>>)
  ELSE IF findOneByEmail(store, body.email) # NoId
    \* unique index on email: User.create rejects with code 11000
    THEN Outcome(sendErrorResponse("register", "Email already exists", HTTP_CONFLICT),
                 store, <<"bcrypt.hash", "User.create">>)
  ELSE IF fault = "create"
    THEN Outcome(handleDatabaseError("register", errName),
                 store, <<"bcrypt.hash", "User.create">>)
  ELSE LET id == NewUserId(store)
           user == [email |-> NormEmail(body.email),
                    password |-> bcryptHash(body.password),
                    refreshToken |-> NoHash]
       IN Outcome([Response("register", HTTP_CREATED, "User created successfully") EXCEPT !.userId = id],
                  (id :> user) @@ store, <<"bcrypt.hash", "User.create">>)

\* ------------------------------------------------------------------------
\* login: POST /api/auth/login
\* ------------------------------------------------------------------------
\* setAuthCookies(res, accessToken, refreshToken)
setAuthCookies(response, accessToken, refreshToken) ==
  [response EXCEPT !.cookies =
     ("accessToken" :> accessToken) @@ ("refreshToken" :> refreshToken) @@ @]

\* the refresh token itself is saved, not its hash
saveRefreshToken_PlainText(store, id, refreshToken) ==
  [store EXCEPT ![id].refreshToken = refreshToken]

\* a session already stored is kept, the new login's hash is not written
saveRefreshToken_KeepFirst(store, id, refreshToken) ==
  IF store[id].refreshToken = NoHash
    THEN [store EXCEPT ![id].refreshToken = hashToken(refreshToken)]
    ELSE store

\* await User.findByIdAndUpdate(user._id, { refreshToken: hashedRefreshToken })
saveRefreshToken(store, id, refreshToken) ==
  [store EXCEPT ![id].refreshToken = hashToken(refreshToken)]

\* an unknown email is answered differently from a wrong password
userNotFoundResponse_Enumerates == sendErrorResponse("login", "User not found", HTTP_NOT_FOUND)

\* if (!user): 'Invalid credentials', 401
userNotFoundResponse == sendErrorResponse("login", "Invalid credentials", HTTP_UNAUTHORIZED)

\* if (!isPasswordCorrect): 'Invalid credentials', 401
wrongPasswordResponse == sendErrorResponse("login", "Invalid credentials", HTTP_UNAUTHORIZED)

login(store, clock, body, fault, errName) ==
  IF body.email = Absent \/ body.password = Absent
    THEN Outcome(sendErrorResponse("login", "Email and password are required", HTTP_BAD_REQUEST),
                 store, <<>>)
  ELSE IF fault = "findOne"
    THEN Outcome(handleDatabaseError("login", errName), store, <<"User.findOne">>)
  ELSE LET id == findOneByEmail(store, body.email) IN
    IF id = NoId
      THEN Outcome(userNotFoundResponse, store, <<"User.findOne">>)
    ELSE IF ~bcryptCompare(body.password, store[id].password)
      THEN Outcome(wrongPasswordResponse, store, <<"User.findOne", "bcrypt.compare">>)
    ELSE LET accessToken == jwtSign(id, JWT_SECRET, ACCESS_TTL, clock)
             refreshToken == jwtSign(id, JWT_REFRESH_SECRET, REFRESH_TTL, clock)
             made == <<"User.findOne", "bcrypt.compare", "User.findByIdAndUpdate">>
         IN IF fault = "findByIdAndUpdate"
              THEN Outcome(handleDatabaseError("login", errName), store, made)
              ELSE Outcome(setAuthCookies([Response("login", HTTP_OK, "Login successful")
                                             EXCEPT !.userId = id],
                                          accessToken, refreshToken),
                           saveRefreshToken(store, id, refreshToken), made)

\* ------------------------------------------------------------------------
\* refresh: POST /api/auth/refresh
\* ------------------------------------------------------------------------
\* only the signature barrier: the stored hash is not compared
refreshTokenRevoked_NoHashCheck(store, refreshToken) ==
  refreshToken.userId \notin DOMAIN store

\* BARRERA 2: !user || user.refreshToken !== hashedToken
refreshTokenRevoked(store, refreshToken) ==
  \/ refreshToken.userId \notin DOMAIN store
  \/ store[refreshToken.userId].refreshToken # hashToken(refreshToken)

\* refresh-token rotation: a new refresh token is issued and its hash stored
refreshGranted_Rotates(store, clock, refreshToken) ==
  LET newAccessToken == jwtSign(refreshToken.userId, JWT_SECRET, ACCESS_TTL, clock)
      newRefreshToken == jwtSign(refreshToken.userId, JWT_REFRESH_SECRET, REFRESH_TTL, clock + 1)
  IN Outcome([Response("refresh", HTTP_OK, "Token refreshed successfully")
                EXCEPT !.cookies = ("accessToken" :> newAccessToken)
                                     @@ ("refreshToken" :> newRefreshToken) @@ @],
             [store EXCEPT ![refreshToken.userId].refreshToken = hashToken(newRefreshToken)],
             <<"jwt.verify", "User.findById", "User.findByIdAndUpdate">>)

\* both barriers passed: a new access token in the accessToken cookie
refreshGranted(store, clock, refreshToken) ==
  LET newAccessToken == jwtSign(refreshToken.userId, JWT_SECRET, ACCESS_TTL, clock)
  IN Outcome([Response("refresh", HTTP_OK, "Token refreshed successfully")
                EXCEPT !.cookies = ("accessToken" :> newAccessToken) @@ @],
             store, <<"jwt.verify", "User.findById">>)

refresh(store, clock, cookies, fault) ==
  IF cookies.refreshToken = NoCookie
    THEN Outcome(sendErrorResponse("refresh", "No refresh token provided", HTTP_UNAUTHORIZED),
                 store, <<>>)
  ELSE IF ~jwtVerifies(cookies.refreshToken, JWT_REFRESH_SECRET, clock)
    THEN Outcome(sendErrorResponse("refresh", "Invalid refresh token", HTTP_UNAUTHORIZED),
                 store, <<"jwt.verify">>)
  ELSE IF fault = "findById"
    THEN Outcome(sendErrorResponse("refresh", "Invalid refresh token", HTTP_UNAUTHORIZED),
                 store, <<"jwt.verify", "User.findById">>)
  ELSE IF refreshTokenRevoked(store, cookies.refreshToken)
    THEN Outcome(sendErrorResponse("refresh", "Invalid refresh token", HTTP_UNAUTHORIZED),
                 store, <<"jwt.verify", "User.findById">>)
  ELSE refreshGranted(store, clock, cookies.refreshToken)

\* ------------------------------------------------------------------------
\* logout: POST /api/auth/logout
\* ------------------------------------------------------------------------
\* the session is looked up by the token's userId claim, not by the hash
unsetRefreshToken_ByUserId(store, hashedToken) ==
  IF hashedToken.of.kind = "jwt" /\ hashedToken.of.userId \in DOMAIN store
    THEN [store EXCEPT ![hashedToken.of.userId].refreshToken = NoHash]
    ELSE store

\* User.findOneAndUpdate({ refreshToken: hashedToken }, { $unset: { refreshToken: 1 } })
unsetRefreshToken(store, hashedToken) ==
  LET id == findOneByRefreshToken(store, hashedToken) IN
  IF id = NoId THEN store ELSE [store EXCEPT ![id].refreshToken = NoHash]

\* the try block of logout; a rejected store call is swallowed
logoutStore(store, cookies, fault) ==
  IF cookies.refreshToken = NoCookie \/ fault = "findOneAndUpdate"
    THEN store
    ELSE unsetRefreshToken(store, hashToken(cookies.refreshToken))

logoutCalls(cookies) ==
  IF cookies.refreshToken = NoCookie THEN <<>> ELSE <<"User.findOneAndUpdate">>

\* a rejected store call is not swallowed: 500 and no cookie is cleared
logoutResponse_FailsOnStoreError(cookies, fault) ==
  IF cookies.refreshToken # NoCookie /\ fault = "findOneAndUpdate"
    THEN sendErrorResponse("logout", "Internal server error", HTTP_INTERNAL_SERVER_ERROR)
    ELSE [Response("logout", HTTP_OK, "Logged out successfully")
            EXCEPT !.cleared = {"accessToken", "refreshToken"}]

\* res.clearCookie('accessToken'), res.clearCookie('refreshToken'), success
logoutResponse(cookies, fault) ==
  [Response("logout", HTTP_OK, "Logged out successfully")
     EXCEPT !.cleared = {"accessToken", "refreshToken"}]

logout(store, cookies, fault) ==
  Outcome(logoutResponse(cookies, fault), logoutStore(store, cookies, fault),
          logoutCalls(cookies))

\* ------------------------------------------------------------------------
\* protect: middlewares/auth.middleware.js
\* ------------------------------------------------------------------------
\* a cookie holding the empty string, and a JWT signed with a key that is
\* not the server's
EmptyCookie == [kind |-> "empty"]
ForgedToken(userId, clock) == jwtSign(userId, "attacker", ACCESS_TTL, clock)

\* no decoded claims on the request
NoUser == [userId |-> NoId]

\* the token read from the Authorization header when the cookie is absent
tokenOf_BearerFallback(cookies, headers) ==
  IF cookies.accessToken \in {NoCookie, EmptyCookie}
    THEN headers.authorization ELSE cookies.accessToken

\* const token = req.cookies?.accessToken
tokenOf(cookies, headers) == cookies.accessToken

\* the payload jwt.verify returns
decoded(token) == [userId |-> token.userId, iat |-> token.iat, exp |-> token.exp]

\* a 401 whose message tells an expired token from the other failures
tokenNotValid_TellsExpired(token, clock) ==
  Response("protect", HTTP_UNAUTHORIZED,
           IF token.kind = "jwt" /\ token.secret = JWT_SECRET /\ clock >= token.exp
             THEN "Token expired" ELSE "Token is not valid")

\* catch (error): 401 'Token is not valid'
tokenNotValid(token, clock) ==
  Response("protect", HTTP_UNAUTHORIZED, "Token is not valid")

\* what protect leaves behind: the response it wrote (status 0: none), how
\* often it called next, req.user, and the calls it made
Guarded(response, nextCalls, user, made) ==
  [res |-> response, next |-> nextCalls, user |-> user, calls |-> made]

\* the guard also asks the store whether the user of the token has a session
protect_ChecksSession(cookies, headers, clock) ==
  LET token == tokenOf(cookies, headers)
  IN IF token \in {NoCookie, EmptyCookie}
       THEN Guarded(Response("protect", HTTP_UNAUTHORIZED,
                             "No token provided, authorization denied"),
                    0, NoUser, <<>>)
     ELSE IF /\ jwtVerifies(token, JWT_SECRET, clock)
             /\ token.userId \in DOMAIN users
             /\ users[token.userId].refreshToken # NoHash
       THEN Guarded(Response("protect", 0, ""), 1, decoded(token), <<"jwt.verify", "next">>)
     ELSE Guarded(tokenNotValid(token, clock), 0, NoUser, <<"jwt.verify">>)

protect(cookies, headers, clock) ==
  LET token == tokenOf(cookies, headers)
  IN IF token \in {NoCookie, EmptyCookie}
       THEN Guarded(Response("protect", HTTP_UNAUTHORIZED,
                             "No token provided, authorization denied"),
                    0, NoUser, <<>>)
     ELSE IF jwtVerifies(token, JWT_SECRET, clock)
       THEN Guarded(Response("protect", 0, ""), 1, decoded(token), <<"jwt.verify", "next">>)
     ELSE Guarded(tokenNotValid(token, clock), 0, NoUser, <<"jwt.verify">>)

\* ------------------------------------------------------------------------
\* The requests a client can send
\* ------------------------------------------------------------------------
\* One login's refresh token is followed through the run: track.t is the
\* cookie value that login set, revoked: a logout carrying it has run its
\* store update since it was last issued, everRevoked: the same, at any time,
\* relogged: a later login of the same user succeeded, superseded: a later
\* login of the same user issued a different refresh token
NoTrack == [t |-> NoCookie, revoked |-> FALSE, everRevoked |-> FALSE,
            relogged |-> FALSE, superseded |-> FALSE]

\* the refresh tokens whose fingerprints the store holds
StoredTokens == {users[u].refreshToken.of : u \in {v \in DOMAIN users : users[v].refreshToken # NoHash}}

\* the access token the login that issued refresh token t set beside it
AccessTokenOf(t) == jwtSign(t.userId, JWT_SECRET, ACCESS_TTL, t.iat)

\* cookie values a client can present: none, a string that is no JWT, and
\* tokens this server has issued
CookieValues ==
  {NoCookie, Garbage} \cup StoredTokens
    \cup (IF track.t = NoCookie THEN {} ELSE {track.t, AccessTokenOf(track.t)})

Bodies == [email : Emails \cup {Absent}, password : Passwords \cup {Absent}]

\* the passwords users register with; a login can try any of Passwords
ChosenPasswords == {"pw1"}
NewBodies == [email : Emails \cup {Absent}, password : ChosenPasswords \cup {Absent}]

\* the store call of a handler that rejects, and with which error
NoFault == [site |-> "none", errName |-> "none"]
Faults(sites) == {NoFault} \cup [site : sites, errName : ErrNames]

\* the errors User.findByIdAndUpdate(user._id, { refreshToken }) can reject
\* with: it runs no validator and casts the id of the user just found and a
\* hex string, so neither a ValidationError nor a CastError
UpdateErrNames == ErrNames \ {"ValidationError", "CastError"}
UpdateFaults == [site : {"findByIdAndUpdate"}, errName : UpdateErrNames]

\* the last request: its route, its refreshToken cookie and when it was handled
Request(op, refreshToken, clock) ==
  [op |-> op, cookies |-> [refreshToken |-> refreshToken], at |-> clock]

\* ========================================================================
\* The wardrobe: controllers/clothing.controller.js
\* ========================================================================
\* an item id of the request path: 0 is a string that is no ObjectId
BadId == 0
ItemIds == 1..MaxItems
NoItems == [i \in {} |-> 0]
NoImage == 0

\* ClothingItem.schema.path('category').enumValues
categoryEnumValues == {"SHIRT", "PANTS", "SHOES", "JACKET", "ACCESSORY", "OTHER"}

\* String.prototype.toUpperCase on the strings of the model
toUpperCase(s) ==
  CASE s = "shirt" -> "SHIRT"
    [] s = "pants" -> "PANTS"
    [] s = "bogus" -> "BOGUS"
    [] s = "Tee" -> "TEE"
    [] s = "Jeans" -> "JEANS"
    [] s = "ee" -> "EE"
    [] s = "red" -> "RED"
    [] s = "Red" -> "RED"
    [] s = "acme" -> "ACME"
    [] s = "Acme" -> "ACME"
    [] OTHER -> s

\* { $regex: pattern, $options: 'i' } on the strings of the model: the
\* patterns are plain letters, so the match is a case-blind substring test
regexTest(pattern, text) ==
  LET p == toUpperCase(pattern)
      t == toUpperCase(text)
  IN \/ p = t
     \/ p = ""
     \/ p = "EE" /\ t \in {"TEE", "EE"}

\* a query parameter as qs parses it: absent, a string, or an object/array
Undefined == [type |-> "undefined"]
Str(s) == [type |-> "string", s |-> s]
Obj == [type |-> "object"]

\* the database: items, the users' clothingItems lists, the hosted images,
\* and how many ids the store and the image service have handed out
Db(its, lists, hosted, nItems, nUploads) ==
  [items |-> its, wardrobe |-> lists, assets |-> hosted,
   created |-> nItems, uploads |-> nUploads]

TheDb == Db(items, wardrobe, assets, created, uploads)

ClothingResponse(op, status, message) ==
  [op |-> op, status |-> status, message |-> message, items |-> {}]

ClothingOutcome(response, db, made) == [res |-> response, db |-> db, calls |-> made]

\* the message of the error is sent to the client
internalServerError_ErrorMessage(op) ==
  ClothingResponse(op, HTTP_INTERNAL_SERVER_ERROR, "Upload failed")

\* catch (error): 500 'Internal server error'
internalServerError(op) ==
  ClothingResponse(op, HTTP_INTERNAL_SERVER_ERROR, "Internal server error")

\* ------------------------------------------------------------------------
\* getClothingItems: GET /api/clothing
\* ------------------------------------------------------------------------
\* a whitelisted key also lets the query name the owner
allowedFilters_WithOwner == {"owner", "name", "category", "color", "brand"}

allowedFilters == {"name", "category", "color", "brand"}
textSearchFields == {"name", "brand"}

\* typeof value === 'string', the empty string included
isValidParam_AllowsEmpty(value) == value.type = "string"

\* typeof value === 'string' && value.length > 0
isValidParam(value) == value.type = "string" /\ value.s # ""

Null == [cond |-> "null"]

\* the category compared with the enumeration as it was sent
buildFilterValue_NoUpperCase(key, value) ==
  IF key \in textSearchFields THEN [cond |-> "regex", v |-> value.s]
  ELSE IF key # "category" THEN [cond |-> "eq", v |-> value.s]
  ELSE IF value.s \notin categoryEnumValues THEN Null
  ELSE [cond |-> "eq", v |-> value.s]

buildFilterValue(key, value) ==
  IF key \in textSearchFields THEN [cond |-> "regex", v |-> value.s]
  ELSE IF key # "category" THEN [cond |-> "eq", v |-> value.s]
  ELSE IF toUpperCase(value.s) \notin categoryEnumValues THEN Null
  ELSE [cond |-> "eq", v |-> toUpperCase(value.s)]

\* const filters = { owner: req.user.userId }; Object.assign(filters, ...)
buildFilters(userId, query) ==
  LET validKeys == {key \in allowedFilters : key \in DOMAIN query /\ isValidParam(query[key])}
      validEntries == {key \in validKeys : buildFilterValue(key, query[key]) # Null}
  IN [key \in validEntries |-> buildFilterValue(key, query[key])]
       @@ ("owner" :> [cond |-> "eq", v |-> ToString(userId)])

\* a stored field as the query compares it: the owner reference is compared
\* with the id string of the filter
fieldString(item, key) == IF key = "owner" THEN ToString(item.owner) ELSE item[key]

\* ClothingItem.find(filters)
find(its, filters) ==
  {i \in DOMAIN its :
     \A key \in DOMAIN filters :
       IF filters[key].cond = "regex"
         THEN its[i][key] # Absent /\ regexTest(filters[key].v, its[i][key])
         ELSE fieldString(its[i], key) = filters[key].v}

getClothingItems(db, userId, query, fault) ==
  IF fault = "find"
    THEN ClothingOutcome(internalServerError("getClothingItems"), db, <<"ClothingItem.find">>)
    ELSE ClothingOutcome([ClothingResponse("getClothingItems", HTTP_OK, "")
                            EXCEPT !.items = find(db.items, buildFilters(userId, query))],
                         db, <<"ClothingItem.find">>)

\* ------------------------------------------------------------------------
\* createClothingItem: POST /api/clothing
\* ------------------------------------------------------------------------
\* the category as the ClothingItem schema casts it before it validates or
\* writes it: upper case
schemaCategory(value) == IF value = Absent THEN Absent ELSE toUpperCase(value)

\* uploadResult.secure_url of the upload that returned public_id
secureUrl(publicId) == -publicId

\* only the name is required
missingFields_NameOnly(body) == body.name = Absent

\* !name || !category || !color
missingFields(body) ==
  body.name = Absent \/ body.category = Absent \/ body.color = Absent

createClothingItem(db, userId, body, file, fault) ==
  IF missingFields(body)
    THEN ClothingOutcome(ClothingResponse("createClothingItem", HTTP_BAD_REQUEST,
                                          "Name, category, and color are required"),
                         db, <<>>)
  ELSE IF file /\ fault = "upload"
    THEN ClothingOutcome(internalServerError("createClothingItem"), db, <<"upload_stream">>)
  ELSE
    LET publicId == IF file THEN db.uploads + 1 ELSE NoImage
        uploaded == IF file
                      THEN [db EXCEPT !.assets = @ \cup {publicId}, !.uploads = publicId]
                      ELSE db
        made == IF file THEN <<"upload_stream", "ClothingItem.create">>
                        ELSE <<"ClothingItem.create">>
        id == db.created + 1
        newItem == [name |-> body.name, category |-> schemaCategory(body.category),
                    color |-> body.color,
                    brand |-> body.brand,
                    imageUrl |-> IF file THEN secureUrl(publicId) ELSE NoImage,
                    imagePublicId |-> publicId, owner |-> userId]
        stored == [uploaded EXCEPT !.items = (id :> newItem) @@ @, !.created = id]
    IN IF fault = "create" \/ schemaCategory(body.category) \notin categoryEnumValues
         THEN ClothingOutcome(internalServerError("createClothingItem"), uploaded, made)
       ELSE IF fault = "findByIdAndUpdate"
         THEN ClothingOutcome(internalServerError("createClothingItem"), stored,
                              Append(made, "User.findByIdAndUpdate"))
       ELSE ClothingOutcome([ClothingResponse("createClothingItem", HTTP_CREATED, "")
                               EXCEPT !.items = {id}],
                            [stored EXCEPT !.wardrobe[userId] = Append(@, id)],
                            Append(made, "User.findByIdAndUpdate"))

\* ------------------------------------------------------------------------
\* updateClothingItem: PUT /api/clothing/:id
\* ------------------------------------------------------------------------
\* if (!item) 404; if (item.owner.toString() !== req.user.userId) 403
\* (the guard of updateClothingItem and of deleteClothingItem)
ownershipGuard(op, verb, its, userId, id) ==
  IF id \notin DOMAIN its
    THEN ClothingResponse(op, HTTP_NOT_FOUND, "Clothing item not found")
  ELSE IF its[id].owner # userId
    THEN ClothingResponse(op, HTTP_FORBIDDEN, verb)
  ELSE ClothingResponse(op, HTTP_OK, "")

\* the fields the body leaves undefined are written as they are
applyUpdate_WritesUndefined(item, dataToUpdate) ==
  [key \in DOMAIN item |->
     IF key \in DOMAIN dataToUpdate THEN dataToUpdate[key] ELSE item[key]]

\* ClothingItem.findByIdAndUpdate(id, dataToUpdate, { new: true }): the
\* fields the body leaves undefined are not written, the category is cast by
\* the schema, and no validator runs (runValidators is not set)
applyUpdate(item, dataToUpdate) ==
  [key \in DOMAIN item |->
     IF key \notin DOMAIN dataToUpdate THEN item[key]
     ELSE IF key \in {"imageUrl", "imagePublicId"} THEN dataToUpdate[key]
     ELSE IF dataToUpdate[key] = Absent THEN item[key]
     ELSE IF key = "category" THEN schemaCategory(dataToUpdate[key])
     ELSE dataToUpdate[key]]

\* the old image stays hosted
destroy_Keeps(hosted, publicId) == hosted

\* cloudinary.uploader.destroy(item.imagePublicId)
destroy(hosted, publicId) == hosted \ {publicId}

\* after an upload only the URL is set
dataToUpdate_UrlOnly(body, file, publicId) ==
  IF file
    THEN [name |-> body.name, category |-> body.category, color |-> body.color,
          brand |-> body.brand, imageUrl |-> secureUrl(publicId)]
    ELSE [name |-> body.name, category |-> body.category, color |-> body.color,
          brand |-> body.brand]

\* const dataToUpdate = { name, category, color, brand }, and after an upload
\* dataToUpdate.imageUrl / dataToUpdate.imagePublicId
dataToUpdate(body, file, publicId) ==
  IF file
    THEN [name |-> body.name, category |-> body.category, color |-> body.color,
          brand |-> body.brand, imageUrl |-> secureUrl(publicId), imagePublicId |-> publicId]
    ELSE [name |-> body.name, category |-> body.category, color |-> body.color,
          brand |-> body.brand]

updateClothingItem(db, userId, id, body, file, fault) ==
  LET op == "updateClothingItem"
      guard == ownershipGuard(op, "User not authorized to update this item", db.items, userId, id)
  IN
  IF id = BadId \/ fault = "findById"
    THEN ClothingOutcome(internalServerError(op), db, <<"ClothingItem.findById">>)
  ELSE IF guard.status # HTTP_OK
    THEN ClothingOutcome(guard, db, <<"ClothingItem.findById">>)
  ELSE
    LET item == db.items[id]
        hadImage == file /\ item.imagePublicId # NoImage
        made1 == IF hadImage THEN <<"ClothingItem.findById", "destroy">>
                             ELSE <<"ClothingItem.findById">>
        destroyed == IF hadImage /\ fault # "destroy"
                       THEN [db EXCEPT !.assets = destroy(@, item.imagePublicId)] ELSE db
        publicId == db.uploads + 1
        made2 == IF file THEN Append(made1, "upload_stream") ELSE made1
        uploaded == IF file
                      THEN [destroyed EXCEPT !.assets = @ \cup {publicId}, !.uploads = publicId]
                      ELSE destroyed
    IN IF hadImage /\ fault = "destroy"
         THEN ClothingOutcome(internalServerError(op), db, made1)
       ELSE IF file /\ fault = "upload"
         THEN ClothingOutcome(internalServerError(op), destroyed, made2)
       ELSE IF fault = "findByIdAndUpdate"
         THEN ClothingOutcome(internalServerError(op), uploaded,
                              Append(made2, "ClothingItem.findByIdAndUpdate"))
       ELSE ClothingOutcome([ClothingResponse(op, HTTP_OK, "") EXCEPT !.items = {id}],
                            [uploaded EXCEPT !.items[id] = applyUpdate(item, dataToUpdate(body, file, publicId))],
                            Append(made2, "ClothingItem.findByIdAndUpdate"))

\* ------------------------------------------------------------------------
\* deleteClothingItem: DELETE /api/clothing/:id
\* ------------------------------------------------------------------------
\* the list is left as it was
pull_Nothing(list, id) == list

\* $pull: { clothingItems: item._id }
pull(list, id) == SelectSeq(list, LAMBDA x : x # id)

\* the item stays in the store
Without_Keeps(its, id) == its

\* ClothingItem.findByIdAndDelete(id)
Without(its, id) == [i \in DOMAIN its \ {id} |-> its[i]]

\* destroy is called whether or not the item has an image
imagesToDestroy_Always(item) == {item.imagePublicId}

\* if (item.imagePublicId) destroy(item.imagePublicId): the identifiers the
\* handler passes to cloudinary.uploader.destroy
imagesToDestroy(item) ==
  IF item.imagePublicId # NoImage THEN {item.imagePublicId} ELSE {}

deleteClothingItem(db, userId, id, fault) ==
  LET op == "deleteClothingItem"
      guard == ownershipGuard(op, "User not authorized to delete this item", db.items, userId, id)
  IN
  IF id = BadId \/ fault = "findById"
    THEN ClothingOutcome(internalServerError(op), db, <<"ClothingItem.findById">>)
  ELSE IF guard.status # HTTP_OK
    THEN ClothingOutcome(guard, db, <<"ClothingItem.findById">>)
  ELSE
    LET item == db.items[id]
        hasImage == imagesToDestroy(item) # {}
        made1 == IF hasImage THEN <<"ClothingItem.findById", "destroy">>
                             ELSE <<"ClothingItem.findById">>
        destroyed == [db EXCEPT !.assets = @ \ imagesToDestroy(item)]
        deleted == [destroyed EXCEPT !.items = Without(@, id)]
        made2 == Append(made1, "ClothingItem.findByIdAndDelete")
    IN IF hasImage /\ fault = "destroy"
         THEN ClothingOutcome(internalServerError(op), db, made1)
       ELSE IF fault = "findByIdAndDelete"
         THEN ClothingOutcome(internalServerError(op), destroyed, made2)
       ELSE IF fault = "updateOne"
         THEN ClothingOutcome(internalServerError(op), deleted, Append(made2, "User.updateOne"))
       ELSE ClothingOutcome(ClothingResponse(op, HTTP_NO_CONTENT, ""),
                            [deleted EXCEPT !.wardrobe[userId] = pull(@, id)],
                            Append(made2, "User.updateOne"))

Init ==
  /\ users = [u \in {} |-> NoHash]
  /\ now = 0
  /\ ticks = 0
  /\ req = Request("none", NoCookie, 0)
  /\ res = Response("none", 0, "")
  /\ calls = <<>>
  /\ track = NoTrack
  /\ items = NoItems
  /\ wardrobe = [u \in UserIds |-> <<>>]
  /\ assets = {}
  /\ created = 0
  /\ uploads = 0
  /\ procs = NoProcs

\* The clock: a second or a refresh-token lifetime passes between two requests
Tick ==
  /\ ticks < MaxTicks
  /\ \E d \in {1, REFRESH_TTL} : now' = now + d
  /\ ticks' = ticks + 1
  /\ UNCHANGED <<users, req, res, calls, track>>
  /\ UNCHANGED <<clothingVars, procs>>

RegisterReq(body, fault) ==
  LET out == register(users, body, fault.site, fault.errName)
  IN /\ DOMAIN users # UserIds
     /\ req' = Request("register", NoCookie, now)
     /\ res' = out.res
     /\ calls' = out.calls
     /\ users' = out.users
     /\ UNCHANGED <<now, ticks, track>>
     /\ UNCHANGED <<clothingVars, procs>>

\* a store call can only reject in a request that reaches it
Complete(body) == body.email # Absent /\ body.password # Absent

Register ==
  \E body \in NewBodies :
    \E fault \in (IF Complete(body) THEN Faults({"create"}) ELSE {NoFault}) :
      RegisterReq(body, fault)

\* the followed token after a login that issued refresh token rt
TrackLogin(rt, follow) ==
  IF track.t = NoCookie
    THEN IF follow THEN [NoTrack EXCEPT !.t = rt] ELSE track
  ELSE IF rt.userId # track.t.userId THEN track
  ELSE [track EXCEPT !.relogged = TRUE,
                     !.superseded = @ \/ rt # track.t,
                     !.revoked = @ /\ rt # track.t]

LoginReq(body, fault, follow) ==
  LET out == login(users, now, body, fault.site, fault.errName)
  IN /\ req' = Request("login", NoCookie, now)
     /\ res' = out.res
     /\ calls' = out.calls
     /\ users' = out.users
     /\ track' = IF out.res.status = HTTP_OK
                   THEN TrackLogin(out.res.cookies["refreshToken"], follow)
                   ELSE track
     /\ UNCHANGED <<now, ticks>>
     /\ UNCHANGED <<clothingVars, procs>>

Login ==
  \E body \in Bodies :
    \E fault \in (IF Complete(body) THEN Faults({"findOne"}) \cup UpdateFaults ELSE {NoFault}),
       follow \in (IF track.t = NoCookie /\ Complete(body) THEN BOOLEAN ELSE {FALSE}) :
      LoginReq(body, fault, follow)

RefreshReq(refreshToken, fault) ==
  LET out == refresh(users, now, [refreshToken |-> refreshToken], fault.site)
  IN /\ req' = Request("refresh", refreshToken, now)
     /\ res' = out.res
     /\ calls' = out.calls
     /\ users' = out.users
     /\ UNCHANGED <<now, ticks, track>>
     /\ UNCHANGED <<clothingVars, procs>>

Refresh ==
  \E refreshToken \in CookieValues, fault \in {NoFault, [NoFault EXCEPT !.site = "findById"]} :
    RefreshReq(refreshToken, fault)

LogoutReq(refreshToken, fault) ==
  LET out == logout(users, [refreshToken |-> refreshToken], fault.site)
  IN /\ req' = Request("logout", refreshToken, now)
     /\ res' = out.res
     /\ calls' = out.calls
     /\ users' = out.users
     /\ track' = IF fault.site = "none" /\ refreshToken = track.t /\ track.t # NoCookie
                   THEN [track EXCEPT !.revoked = TRUE, !.everRevoked = TRUE]
                   ELSE track
     /\ UNCHANGED <<now, ticks>>
     /\ UNCHANGED <<clothingVars, procs>>

Logout ==
  \E refreshToken \in CookieValues, fault \in {NoFault, [NoFault EXCEPT !.site = "findOneAndUpdate"]} :
    LogoutReq(refreshToken, fault)

Next == Tick \/ Register \/ Login \/ Refresh \/ Logout

Spec == Init /\ [][Next]_vars

\* ------------------------------------------------------------------------
\* Requests to a protected route, as far as the protect middleware
\* ------------------------------------------------------------------------
\* what a client can put into the accessToken cookie or behind 'Bearer '
GuardTokens ==
  {NoCookie, EmptyCookie, Garbage}
    \cup (IF track.t = NoCookie THEN {}
          ELSE {track.t, AccessTokenOf(track.t), ForgedToken(track.t.userId, track.t.iat)})

GuardRequest(accessToken, authorization, clock, user) ==
  [op |-> "protect", cookies |-> [accessToken |-> accessToken],
   headers |-> [authorization |-> authorization], at |-> clock, user |-> user]

ProtectReq(accessToken, authorization) ==
  LET out == protect([accessToken |-> accessToken], [authorization |-> authorization], now)
  IN /\ req' = GuardRequest(accessToken, authorization, now, out.user)
     /\ res' = out.res
     /\ calls' = out.calls
     /\ UNCHANGED <<users, now, ticks, track>>
     /\ UNCHANGED <<clothingVars, procs>>

Protect ==
  \E accessToken \in GuardTokens, authorization \in GuardTokens : ProtectReq(accessToken, authorization)

NextGuard == Tick \/ Register \/ Login \/ Refresh \/ Protect

SpecGuard == Init /\ [][NextGuard]_vars

\* protected routes next to logins and logouts
NextRevoked == Tick \/ Register \/ Login \/ Logout \/ Protect

SpecRevoked == Init /\ [][NextRevoked]_vars

\* ------------------------------------------------------------------------
\* The wardrobe requests of authenticated users (req.user.userId is the id
\* the protect middleware decoded from the access token)
\* ------------------------------------------------------------------------
Names == {"Tee"}
NewNames == {"Jeans"}
Categories == {"shirt", "bogus"}
NewCategories == {"pants"}
Colors == {"red"}
Brands == {"Acme"}

ItemBodies ==
  [name : Names \cup {Absent}, category : Categories \cup {Absent},
   color : Colors \cup {Absent}, brand : Brands]

UpdateBodies ==
  {b \in [name : NewNames \cup {Absent}, category : NewCategories \cup {Absent},
         color : {Absent}, brand : {Absent}] :
     b.category = Absent}

Queries ==
  [owner : {Undefined} \cup {Str(ToString(u)) : u \in UserIds},
   name : {Undefined, Str("ee"), Obj},
   category : {Undefined, Str("shirt")},
   color : {Undefined, Str("Red")},
   brand : {Undefined}]

\* the queries the requests of the model send
SentQueries ==
  {q \in Queries : q.color = Undefined /\ q.brand = Undefined
                     /\ q.name = Undefined
                     /\ q.category = Undefined}

\* req.query holds only the keys the URL names
queryOf(q) == [key \in {k \in DOMAIN q : q[k] # Undefined} |-> q[key]]

\* the store and image calls after the guard are reached by the owner only
Owns(userId, id) == id \in DOMAIN items /\ items[id].owner = userId

CompleteItem(body) ==
  body.name # Absent /\ body.category # Absent /\ body.color # Absent

ClothingRequest(op, userId, id, owner) ==
  [op |-> op, user |-> [userId |-> userId], params |-> [id |-> id],
   query |-> [owner |-> owner]]

InitClothing ==
  /\ users = [u \in UserIds |->
                [email |-> CASE u = 1 -> "a@x" [] u = 2 -> "b@x" [] OTHER -> "c@x",
                 password |-> bcryptHash("pw1"), refreshToken |-> NoHash]]
  /\ now = 0
  /\ ticks = 0
  /\ req = ClothingRequest("none", NoId, BadId, Undefined)
  /\ res = ClothingResponse("none", 0, "")
  /\ calls = <<>>
  /\ track = NoTrack
  /\ items = NoItems
  /\ wardrobe = [u \in UserIds |-> <<>>]
  /\ assets = {}
  /\ created = 0
  /\ uploads = 0
  /\ procs = NoProcs

Answer(request, outcome) ==
  /\ req' = request
  /\ res' = outcome.res
  /\ calls' = outcome.calls
  /\ items' = outcome.db.items
  /\ wardrobe' = outcome.db.wardrobe
  /\ assets' = outcome.db.assets
  /\ created' = outcome.db.created
  /\ uploads' = outcome.db.uploads
  /\ UNCHANGED <<sessionVars, procs>>

GetClothingItems ==
  \E userId \in UserIds, q \in SentQueries, fault \in {"none", "find"} :
    Answer(ClothingRequest("getClothingItems", userId, BadId, q.owner),
           getClothingItems(TheDb, userId, queryOf(q), fault))

CreateClothingItem ==
  \E userId \in UserIds, body \in ItemBodies, file \in BOOLEAN,
     fault \in {"none", "upload", "create", "findByIdAndUpdate"} :
    /\ created < MaxItems
    /\ file => uploads < MaxUploads
    /\ CompleteItem(body) \/ fault = "none"
    /\ Answer(ClothingRequest("createClothingItem", userId, BadId, Undefined),
              createClothingItem(TheDb, userId, body, file, fault))

UpdateClothingItem ==
  \E userId \in UserIds, id \in ItemIds \cup {BadId}, body \in UpdateBodies, file \in BOOLEAN,
     fault \in {"none", "findById", "destroy", "upload", "findByIdAndUpdate"} :
    /\ file => uploads < MaxUploads
    /\ fault \in {"none", "findById"} \/ Owns(userId, id)
    /\ Answer(ClothingRequest("updateClothingItem", userId, id, Undefined),
              updateClothingItem(TheDb, userId, id, body, file, fault))

DeleteClothingItem ==
  \E userId \in UserIds, id \in ItemIds \cup {BadId},
     fault \in {"none", "findById", "destroy", "findByIdAndDelete", "updateOne"} :
    /\ fault \in {"none", "findById"} \/ Owns(userId, id)
    /\ Answer(ClothingRequest("deleteClothingItem", userId, id, Undefined),
              deleteClothingItem(TheDb, userId, id, fault))

NextClothing ==
  GetClothingItems \/ CreateClothingItem \/ UpdateClothingItem \/ DeleteClothingItem

SpecClothing == InitClothing /\ [][NextClothing]_vars

\* ------------------------------------------------------------------------
\* Listings with every kind of query, over a stocked wardrobe
\* ------------------------------------------------------------------------
StockBodies ==
  [name : {"Tee"}, category : {"SHIRT", "PANTS"}, color : {"red"}, brand : {"Acme"}]

\* query keys a client can send: the filterable fields and two others
QueryKeys == {"owner", "imageUrl", "name", "category", "color", "brand"}

QueryValues(key) ==
  CASE key = "owner" -> {Str("2")}
    [] key = "imageUrl" -> {Str("x")}
    [] key = "name" -> {Str("ee"), Str(""), Obj}
    [] key = "category" -> {Str("shirt"), Str("SHIRT"), Str("PANTS"), Str("bogus"), Str(""), Obj}
    [] key = "color" -> {Str("Red"), Str("red"), Str(""), Obj}
    [] key = "brand" -> {Str("acme")}

MaxQueryKeys == 2

\* req.query with at most MaxQueryKeys keys
FilterQueries ==
  UNION {{q \in [keys -> UNION {QueryValues(k) : k \in keys}] :
            \A k \in keys : q[k] \in QueryValues(k)} :
         keys \in {ks \in SUBSET QueryKeys : Cardinality(ks) <= MaxQueryKeys}}

FilterRequest(userId, query) ==
  [op |-> "getClothingItems", user |-> [userId |-> userId], query |-> query]

StockClothingItem ==
  \E userId \in UserIds, body \in StockBodies :
    /\ created < MaxItems
    /\ Answer(ClothingRequest("createClothingItem", userId, BadId, Undefined),
              createClothingItem(TheDb, userId, body, FALSE, "none"))

ListClothingItems ==
  \E userId \in UserIds, query \in FilterQueries, fault \in {"none", "find"} :
    /\ fault = "none" \/ DOMAIN query = {}
    /\ Answer(FilterRequest(userId, query), getClothingItems(TheDb, userId, query, fault))

NextFilter == StockClothingItem \/ ListClothingItems

SpecFilter == InitClothing /\ [][NextFilter]_vars

\* ------------------------------------------------------------------------
\* Deletions from a wardrobe whose items may each have an image
\* ------------------------------------------------------------------------
StockImagedItem ==
  \E userId \in UserIds, file \in BOOLEAN :
    /\ created < MaxItems
    /\ Answer(ClothingRequest("createClothingItem", userId, BadId, Undefined),
              createClothingItem(TheDb, userId,
                                 [name |-> "Tee", category |-> "SHIRT", color |-> "red",
                                  brand |-> "Acme"],
                                 file, "none"))

NextCascade == StockImagedItem \/ DeleteClothingItem

SpecCascade == InitClothing /\ [][NextCascade]_vars

\* ------------------------------------------------------------------------
\* Items whose image is set, replaced and removed
\* ------------------------------------------------------------------------
\* uploads enough to give every item an image and to replace one
MaxImages == MaxItems + MaxUploads

UnchangedBody == [name |-> Absent, category |-> Absent, color |-> Absent, brand |-> Absent]

CreateImagedItem ==
  \E userId \in UserIds, file \in BOOLEAN,
     fault \in {"none", "upload", "create", "findByIdAndUpdate"} :
    /\ created < MaxItems
    /\ file => uploads < MaxImages
    /\ Answer(ClothingRequest("createClothingItem", userId, BadId, Undefined),
              createClothingItem(TheDb, userId,
                                 [name |-> "Tee", category |-> "SHIRT", color |-> "red",
                                  brand |-> "Acme"],
                                 file, fault))

ReplaceImage ==
  \E userId \in UserIds, id \in ItemIds, file \in BOOLEAN,
     fault \in {"none", "findById", "destroy", "upload", "findByIdAndUpdate"} :
    /\ file => uploads < MaxImages
    /\ fault = "none" \/ Owns(userId, id)
    /\ Answer(ClothingRequest("updateClothingItem", userId, id, Undefined),
              updateClothingItem(TheDb, userId, id, UnchangedBody, file, fault))

NextImages == CreateImagedItem \/ ReplaceImage \/ DeleteClothingItem

SpecImages == InitClothing /\ [][NextImages]_vars

\* ========================================================================
\* Requests that interleave: each await of a handler is a step of its own
\* ========================================================================
Procs == {"p", "q"}

\* ------------------------------------------------------------------------
\* Two logins of one user, both with the right password
\* ------------------------------------------------------------------------
\* the user both requests log in as
RaceUser == 1

\* a login in flight: where it is, the tokens it signed, the response it
\* sent, and the position of its store write among the store writes
LoginProc(pc, accessToken, refreshToken, response, order) ==
  [pc |-> pc, accessToken |-> accessToken, refreshToken |-> refreshToken,
   res |-> response, order |-> order]

InitLogins ==
  /\ users = (RaceUser :> [email |-> "a@x", password |-> bcryptHash("pw1"),
                           refreshToken |-> NoHash])
  /\ now = 0
  /\ ticks = 0
  /\ req = Request("none", NoCookie, 0)
  /\ res = Response("none", 0, "")
  /\ calls = <<>>
  /\ track = NoTrack
  /\ items = NoItems
  /\ wardrobe = [u \in UserIds |-> <<>>]
  /\ assets = {}
  /\ created = 0
  /\ uploads = 0
  /\ procs = [p \in Procs |-> LoginProc("start", NoCookie, NoCookie, Response("none", 0, ""), 0)]

Writes == Cardinality({p \in Procs : procs[p].order > 0})

StepVars == <<now, ticks, req, res, calls, track>>

\* await User.findOne({ email })
LoginFind(p) ==
  /\ procs[p].pc = "start"
  /\ findOneByEmail(users, "a@x") = RaceUser
  /\ procs' = [procs EXCEPT ![p].pc = "found"]
  /\ UNCHANGED <<users, StepVars, clothingVars>>

\* await bcrypt.compare(...), then both tokens are signed
LoginSign(p) ==
  /\ procs[p].pc = "found"
  /\ bcryptCompare("pw1", users[RaceUser].password)
  /\ procs' = [procs EXCEPT ![p].pc = "signed",
                            ![p].accessToken = jwtSign(RaceUser, JWT_SECRET, ACCESS_TTL, now),
                            ![p].refreshToken = jwtSign(RaceUser, JWT_REFRESH_SECRET, REFRESH_TTL, now)]
  /\ UNCHANGED <<users, StepVars, clothingVars>>

\* the store applies findByIdAndUpdate(user._id, { refreshToken: hash }), or
\* the call rejects
LoginWrite(p, fault) ==
  /\ procs[p].pc = "signed"
  /\ IF fault = "none"
       THEN /\ users' = saveRefreshToken(users, RaceUser, procs[p].refreshToken)
            /\ procs' = [procs EXCEPT ![p].pc = "written", ![p].order = Writes + 1]
       ELSE /\ users' = users
            /\ procs' = [procs EXCEPT ![p].pc = "done",
                                      ![p].res = handleDatabaseError("login", fault)]
  /\ UNCHANGED <<StepVars, clothingVars>>

\* setAuthCookies and the 200
LoginRespond(p) ==
  /\ procs[p].pc = "written"
  /\ procs' = [procs EXCEPT ![p].pc = "done",
                            ![p].res = setAuthCookies([Response("login", HTTP_OK, "Login successful")
                                                         EXCEPT !.userId = RaceUser],
                                                      procs[p].accessToken, procs[p].refreshToken)]
  /\ UNCHANGED <<users, StepVars, clothingVars>>

LoginStep ==
  \E p \in Procs :
    \/ LoginFind(p)
    \/ LoginSign(p)
    \/ \E fault \in {"none"} \cup UpdateErrNames : LoginWrite(p, fault)
    \/ LoginRespond(p)

\* a client refreshes with the cookie one of the two logins set
RefreshAfter ==
  \E p \in Procs :
    /\ \A q \in Procs : procs[q].pc = "done"
    /\ procs[p].res.status = HTTP_OK
    /\ RefreshReq(procs[p].res.cookies["refreshToken"], NoFault)

NextLogins == Tick \/ LoginStep \/ RefreshAfter

SpecLogins == InitLogins /\ [][NextLogins]_vars

\* ------------------------------------------------------------------------
\* Two updates of one item by its owner
\* ------------------------------------------------------------------------
RaceItem == 1

\* the bodies the two updates send
RaceBodies ==
  [name : {"Jeans", "Coat", Absent}, category : {Absent}, color : {"blue", Absent},
   brand : {Absent}]

\* an update in flight: where it is, its body and file, the item findById
\* gave it, the public id of its upload, the response it sent, and the
\* position of its store write among the store writes
UpdateProc(pc, body, file, item, publicId, response, order) ==
  [pc |-> pc, body |-> body, file |-> file, item |-> item, publicId |-> publicId,
   res |-> response, order |-> order]

\* the item before either update, with or without a stored image
StoredItem(publicId) ==
  [name |-> "Tee", category |-> "SHIRT", color |-> "red", brand |-> "Acme",
   imageUrl |-> IF publicId = NoImage THEN NoImage ELSE secureUrl(publicId),
   imagePublicId |-> publicId, owner |-> RaceUser]

InitUpdates ==
  /\ users = (RaceUser :> [email |-> "a@x", password |-> bcryptHash("pw1"),
                           refreshToken |-> NoHash])
  /\ now = 0
  /\ ticks = 0
  /\ req = ClothingRequest("none", NoId, BadId, Undefined)
  /\ res = ClothingResponse("none", 0, "")
  /\ calls = <<>>
  /\ track = NoTrack
  /\ \E publicId \in {NoImage, 1} :
       /\ items = (RaceItem :> StoredItem(publicId))
       /\ assets = {publicId} \ {NoImage}
       /\ uploads = publicId
  /\ wardrobe = [u \in UserIds |-> IF u = RaceUser THEN <<RaceItem>> ELSE <<>>]
  /\ created = 1
  /\ procs \in [Procs -> {UpdateProc("start", body, file, NoItems, NoImage,
                                     ClothingResponse("none", 0, ""), 0) :
                            body \in RaceBodies, file \in BOOLEAN}]

UpdateStepVars == <<users, StepVars, wardrobe, created>>

\* await ClothingItem.findById(id), the 404 and the 403
UpdateFind(p) ==
  LET guard == ownershipGuard("updateClothingItem", "User not authorized to update this item",
                              items, RaceUser, RaceItem)
  IN /\ procs[p].pc = "start"
     /\ procs' = IF guard.status = HTTP_OK
                   THEN [procs EXCEPT ![p].pc = "found", ![p].item = items[RaceItem]]
                   ELSE [procs EXCEPT ![p].pc = "done", ![p].res = guard]
     /\ UNCHANGED <<UpdateStepVars, items, assets, uploads>>

\* await cloudinary.uploader.destroy(item.imagePublicId), of the image the
\* item had when it was read
UpdateDestroy(p) ==
  /\ procs[p].pc = "found"
  /\ procs[p].file
  /\ procs[p].item.imagePublicId # NoImage
  /\ assets' = destroy(assets, procs[p].item.imagePublicId)
  /\ procs' = [procs EXCEPT ![p].pc = "destroyed"]
  /\ UNCHANGED <<UpdateStepVars, items, uploads>>

\* await new Promise(... upload_stream ...)
UpdateUpload(p) ==
  /\ procs[p].file
  /\ \/ procs[p].pc = "destroyed"
     \/ procs[p].pc = "found" /\ procs[p].item.imagePublicId = NoImage
  /\ uploads' = uploads + 1
  /\ assets' = assets \cup {uploads + 1}
  /\ procs' = [procs EXCEPT ![p].pc = "uploaded", ![p].publicId = uploads + 1]
  /\ UNCHANGED <<UpdateStepVars, items>>

\* the store applies findByIdAndUpdate(id, dataToUpdate, { new: true })
UpdateWrite(p) ==
  /\ \/ procs[p].pc = "uploaded"
     \/ procs[p].pc = "found" /\ ~procs[p].file
  /\ items' = [items EXCEPT ![RaceItem] =
                 applyUpdate(@, dataToUpdate(procs[p].body, procs[p].file, procs[p].publicId))]
  /\ procs' = [procs EXCEPT ![p].pc = "written", ![p].order = Writes + 1]
  /\ UNCHANGED <<UpdateStepVars, assets, uploads>>

\* res.json(updatedItem)
UpdateRespond(p) ==
  /\ procs[p].pc = "written"
  /\ procs' = [procs EXCEPT ![p].pc = "done",
                            ![p].res = [ClothingResponse("updateClothingItem", HTTP_OK, "")
                                          EXCEPT !.items = {RaceItem}]]
  /\ UNCHANGED <<UpdateStepVars, items, assets, uploads>>

NextUpdates ==
  \E p \in Procs :
    UpdateFind(p) \/ UpdateDestroy(p) \/ UpdateUpload(p) \/ UpdateWrite(p) \/ UpdateRespond(p)

SpecUpdates == InitUpdates /\ [][NextUpdates]_vars

\* ------------------------------------------------------------------------
\* Two deletes of one item by its owner
\* ------------------------------------------------------------------------
\* a delete in flight: where it is, the item findById gave it, the response
\* it sent, and how often it called the image destroy
DeleteProc(pc, item, response, destroys) ==
  [pc |-> pc, item |-> item, res |-> response, destroys |-> destroys]

\* the image of the item both deletes address
RaceImage == 1

\* another item of the same owner, with an image of its own
OtherItem == 2
OtherImage == 2

InitDeletes ==
  /\ users = (RaceUser :> [email |-> "a@x", password |-> bcryptHash("pw1"),
                           refreshToken |-> NoHash])
  /\ now = 0
  /\ ticks = 0
  /\ req = ClothingRequest("none", NoId, BadId, Undefined)
  /\ res = ClothingResponse("none", 0, "")
  /\ calls = <<>>
  /\ track = NoTrack
  /\ \/ /\ items = (RaceItem :> StoredItem(RaceImage))
        /\ assets = {RaceImage}
        /\ uploads = RaceImage
        /\ wardrobe = [u \in UserIds |-> IF u = RaceUser THEN <<RaceItem>> ELSE <<>>]
        /\ created = 1
     \/ /\ items = (RaceItem :> StoredItem(RaceImage)) @@ (OtherItem :> StoredItem(OtherImage))
        /\ assets = {RaceImage, OtherImage}
        /\ uploads = OtherImage
        /\ wardrobe = [u \in UserIds |->
                         IF u = RaceUser THEN <<RaceItem, OtherItem>> ELSE <<>>]
        /\ created = 2
  /\ procs = [p \in Procs |->
                DeleteProc("start", NoItems, ClothingResponse("none", 0, ""), 0)]

DeleteStepVars == <<users, StepVars, created, uploads>>

\* await ClothingItem.findById(id), the 404 and the 403
DeleteFind(p) ==
  LET guard == ownershipGuard("deleteClothingItem", "User not authorized to delete this item",
                              items, RaceUser, RaceItem)
  IN /\ procs[p].pc = "start"
     /\ procs' = IF guard.status = HTTP_OK
                   THEN [procs EXCEPT ![p].pc = "found", ![p].item = items[RaceItem]]
                   ELSE [procs EXCEPT ![p].pc = "done", ![p].res = guard]
     /\ UNCHANGED <<DeleteStepVars, items, wardrobe, assets>>

\* await cloudinary.uploader.destroy(item.imagePublicId), or the call rejects
DeleteDestroy(p, fault) ==
  /\ procs[p].pc = "found"
  /\ imagesToDestroy(procs[p].item) # {}
  /\ IF fault = "none"
       THEN /\ assets' = assets \ imagesToDestroy(procs[p].item)
            /\ procs' = [procs EXCEPT ![p].pc = "destroyed", ![p].destroys = @ + 1]
       ELSE /\ assets' = assets
            /\ procs' = [procs EXCEPT ![p].pc = "done", ![p].destroys = @ + 1,
                                      ![p].res = internalServerError("deleteClothingItem")]
  /\ UNCHANGED <<DeleteStepVars, items, wardrobe>>

\* await ClothingItem.findByIdAndDelete(id): nothing to delete is no error;
\* or the call rejects
DeleteRemove(p, fault) ==
  /\ \/ procs[p].pc = "destroyed"
     \/ procs[p].pc = "found" /\ imagesToDestroy(procs[p].item) = {}
  /\ IF fault = "none"
       THEN /\ items' = Without(items, RaceItem)
            /\ procs' = [procs EXCEPT ![p].pc = "removed"]
       ELSE /\ items' = items
            /\ procs' = [procs EXCEPT ![p].pc = "done",
                                      ![p].res = internalServerError("deleteClothingItem")]
  /\ UNCHANGED <<DeleteStepVars, wardrobe, assets>>

\* await User.updateOne({ _id }, { $pull: { clothingItems: item._id } }), or
\* the call rejects
DeletePull(p, fault) ==
  /\ procs[p].pc = "removed"
  /\ IF fault = "none"
       THEN /\ wardrobe' = [wardrobe EXCEPT ![RaceUser] = pull(@, RaceItem)]
            /\ procs' = [procs EXCEPT ![p].pc = "pulled"]
       ELSE /\ wardrobe' = wardrobe
            /\ procs' = [procs EXCEPT ![p].pc = "done",
                                      ![p].res = internalServerError("deleteClothingItem")]
  /\ UNCHANGED <<DeleteStepVars, items, assets>>

\* res.status(204).send()
DeleteRespond(p) ==
  /\ procs[p].pc = "pulled"
  /\ procs' = [procs EXCEPT ![p].pc = "done",
                            ![p].res = ClothingResponse("deleteClothingItem", HTTP_NO_CONTENT, "")]
  /\ UNCHANGED <<DeleteStepVars, items, wardrobe, assets>>

NextDeletes ==
  \E p \in Procs :
    \/ DeleteFind(p)
    \/ \E fault \in {"none", "destroy"} : DeleteDestroy(p, fault)
    \/ \E fault \in {"none", "findByIdAndDelete"} : DeleteRemove(p, fault)
    \/ \E fault \in {"none", "updateOne"} : DeletePull(p, fault)
    \/ DeleteRespond(p)

SpecDeletes == InitDeletes /\ [][NextDeletes]_vars

\* ========================================================================
\* Properties of the session protocol
\* ========================================================================
IsRefreshOf(t) == req.op = "refresh" /\ t # NoCookie /\ req.cookies.refreshToken = t

Refused(response) ==
  /\ response.status = HTTP_UNAUTHORIZED
  /\ response.message = "Invalid refresh token"
  /\ "accessToken" \notin DOMAIN response.cookies

\* C1 (as claimed): once a logout carrying refresh token T has run its store
\* update, every later refresh carrying T is answered 401 'Invalid refresh
\* token' and sets no accessToken cookie.
C1_RevokedForever ==
  (IsRefreshOf(track.t) /\ track.everRevoked) => Refused(res)

\* C1 (amended): once a logout carrying refresh token T has run its store
\* update, every refresh carrying T is answered 401 'Invalid refresh token'
\* and sets no accessToken cookie, until a later login of the same user
\* issues the very same token T again (a login signed in the second T was
\* signed in); this holds although T still verifies.
C1_RevokedUntilReissued ==
  (IsRefreshOf(track.t) /\ track.revoked) => Refused(res)

C1_Witness ==
  /\ IsRefreshOf(track.t)
  /\ track.revoked
  /\ jwtVerifies(track.t, JWT_REFRESH_SECRET, req.at)
  /\ Refused(res)

\* C2: a refresh answers 200 with an accessToken cookie exactly when the
\* refreshToken cookie is present, verifies against the refresh secret, names
\* an existing user and its fingerprint equals that user's stored hash; an
\* absent cookie gives 401 'No refresh token provided', every other failure
\* 401 'Invalid refresh token'.
RefreshAllowed(cookie, clock) ==
  /\ cookie # NoCookie
  /\ cookie.kind = "jwt"
  /\ cookie.secret = JWT_REFRESH_SECRET
  /\ clock < cookie.exp
  /\ cookie.userId \in DOMAIN users
  /\ users[cookie.userId].refreshToken = [kind |-> "sha256", of |-> cookie]

C2_RefreshBarriers ==
  /\ req.op = "refresh" =>
       LET cookie == req.cookies.refreshToken
           granted == res.status = HTTP_OK /\ "accessToken" \in DOMAIN res.cookies
       IN /\ granted => RefreshAllowed(cookie, req.at)
          /\ "accessToken" \in DOMAIN res.cookies => res.status = HTTP_OK
          /\ cookie = NoCookie =>
               res.status = HTTP_UNAUTHORIZED /\ res.message = "No refresh token provided"
          /\ (cookie # NoCookie /\ ~granted) => Refused(res)
  /\ \A cookie \in CookieValues :
       RefreshAllowed(cookie, now) =>
         refresh(users, now, [refreshToken |-> cookie], "none").res.status = HTTP_OK

C2_Witness ==
  /\ req.op = "refresh"
  /\ res.status = HTTP_OK
  /\ "accessToken" \in DOMAIN res.cookies
  /\ track.relogged

\* C3: after a login that answers with success, the hash stored for that
\* user is the fingerprint of the refreshToken cookie of that response.
C3_StoredHashIsCookieFingerprint ==
  (req.op = "login" /\ res.status = HTTP_OK) =>
    /\ "refreshToken" \in DOMAIN res.cookies
    /\ res.userId \in DOMAIN users
    /\ res.cookies["refreshToken"].userId = res.userId
    /\ users[res.userId].refreshToken = [kind |-> "sha256", of |-> res.cookies["refreshToken"]]

C3_Witness ==
  /\ req.op = "login"
  /\ res.status = HTTP_OK
  /\ track.superseded

\* the refresh tokens of user u that a refresh would accept now
Accepted(u) ==
  {t \in CookieValues :
     /\ t.kind = "jwt"
     /\ t.userId = u
     /\ refresh(users, now, [refreshToken |-> t], "none").res.status = HTTP_OK}

\* C4 (as claimed): each user holds at most one fingerprint, so refresh
\* accepts at most one refresh token per user; after a second successful
\* login of a user, a refresh carrying the first login's token answers 401.
C4_SecondLoginRevokesFirst ==
  /\ \A u \in UserIds : Cardinality(Accepted(u)) <= 1
  /\ (IsRefreshOf(track.t) /\ track.relogged) => res.status = HTTP_UNAUTHORIZED

\* C4 (amended): each user holds at most one fingerprint, so refresh accepts
\* at most one refresh token per user; after a later successful login of a
\* user that issued a different refresh token, a refresh carrying the earlier
\* login's token answers 401 (two logins of a user signed in the same second
\* issue one and the same token, which stays accepted).
C4_SingleSession ==
  /\ \A u \in UserIds : Cardinality(Accepted(u)) <= 1
  /\ (IsRefreshOf(track.t) /\ track.superseded) => res.status = HTTP_UNAUTHORIZED

C4_Witness ==
  /\ IsRefreshOf(track.t)
  /\ track.superseded
  /\ ~track.everRevoked
  /\ jwtVerifies(track.t, JWT_REFRESH_SECRET, req.at)
  /\ res.status = HTTP_UNAUTHORIZED

\* C5: a login with an email of no user and a login, with the same password,
\* with the email of a user whose password does not match are answered
\* identically: 401 {message: 'Invalid credentials'}, no cookie, and neither
\* changes a user record.
UnknownEmail(body) == Complete(body) /\ \A u \in DOMAIN users : users[u].email # NormEmail(body.email)

WrongPassword(body) ==
  /\ Complete(body)
  /\ \E u \in DOMAIN users : users[u].email = NormEmail(body.email) /\ users[u].password.of # body.password

C5_NonEnumeration ==
  \A b1, b2 \in Bodies :
    (UnknownEmail(b1) /\ WrongPassword(b2) /\ b1.password = b2.password) =>
      LET o1 == login(users, now, b1, "none", "none")
          o2 == login(users, now, b2, "none", "none")
      IN /\ o1.res = o2.res
         /\ o1.res.status = HTTP_UNAUTHORIZED
         /\ o1.res.message = "Invalid credentials"
         /\ o1.res.cookies = NoCookies /\ o1.res.cleared = {}
         /\ o1.users = users /\ o2.users = users

C5_Witness ==
  /\ \E b1, b2 \in Bodies : UnknownEmail(b1) /\ WrongPassword(b2) /\ b1.password = b2.password
  /\ req.op = "login"
  /\ res.status = HTTP_UNAUTHORIZED
  /\ calls = <<"User.findOne", "bcrypt.compare">>

\* ------------------------------------------------------------------------
\* Properties of the wardrobe
\* ------------------------------------------------------------------------
\* C6: for every authenticated user u and every query, a query key 'owner'
\* naming another user included, the filter getClothingItems passes to the
\* store has owner equal to u, and the response holds no item whose owner is
\* not u
C6_ListingOwnershipScope ==
  /\ \A userId \in UserIds, q \in Queries :
       LET query == queryOf(q)
           out == getClothingItems(TheDb, userId, query, "none")
       IN /\ buildFilters(userId, query)["owner"] = [cond |-> "eq", v |-> ToString(userId)]
          /\ out.res.status = HTTP_OK
          /\ \A i \in out.res.items : items[i].owner = userId
  /\ (res.op = "getClothingItems" /\ res.status = HTTP_OK) =>
       \A i \in res.items : i \in DOMAIN items /\ items[i].owner = req.user.userId

C6_Witness ==
  /\ res.op = "getClothingItems"
  /\ res.status = HTTP_OK
  /\ res.items # {}
  /\ req.query.owner \in {Str(ToString(u)) : u \in UserIds \ {req.user.userId}}
  /\ \E i \in DOMAIN items : items[i].owner # req.user.userId

GuardRefusal(out, status) ==
  /\ out.res.status = status
  /\ out.db = TheDb
  /\ out.calls = <<"ClothingItem.findById">>

\* C7 (as claimed): an update or a delete of an item id that is not in the
\* store answers 404, and of an item whose stored owner is not the
\* authenticated user answers 403; in both cases the items, the users' item
\* lists and the hosted images are unchanged and the handler made no call
\* but the lookup
C7_MutationOwnershipGuard ==
  \A userId \in UserIds, id \in ItemIds \cup {BadId}, body \in UpdateBodies, file \in BOOLEAN :
    LET up == updateClothingItem(TheDb, userId, id, body, file, "none")
        del == deleteClothingItem(TheDb, userId, id, "none")
    IN /\ id \notin DOMAIN items =>
            GuardRefusal(up, HTTP_NOT_FOUND) /\ GuardRefusal(del, HTTP_NOT_FOUND)
       /\ (id \in DOMAIN items /\ items[id].owner # userId) =>
            GuardRefusal(up, HTTP_FORBIDDEN) /\ GuardRefusal(del, HTTP_FORBIDDEN)

LogoutFaults == {"none", "findOneAndUpdate"}
RefreshFaults == {"none", "findById"}

LoggedOut(response) ==
  /\ response.status = HTTP_OK
  /\ response.message = "Logged out successfully"
  /\ response.cleared = {"accessToken", "refreshToken"}
  /\ response.cookies = NoCookies

\* C8: every logout, whether the refreshToken cookie is absent, matches a
\* user, matches no user, or the store update throws, clears both cookies and
\* answers 200 {message: 'Logged out successfully'}.
C8_LogoutNeverFails ==
  /\ req.op = "logout" => LoggedOut(res)
  /\ \A cookie \in CookieValues, fault \in LogoutFaults :
       LoggedOut(logout(users, [refreshToken |-> cookie], fault).res)

C8_Witness ==
  /\ req.op = "logout"
  /\ LoggedOut(res)
  /\ req.cookies.refreshToken \in StoredTokens
  /\ calls = <<"User.findOneAndUpdate">>

Matching(cookie) == {u \in DOMAIN users : users[u].refreshToken = [kind |-> "sha256", of |-> cookie]}

\* C9: a logout carrying refresh token T unsets the stored hash of exactly
\* the user whose stored hash is the fingerprint of T and changes no other
\* user; with no cookie it makes no store call, and when no stored hash
\* matches every stored fingerprint is unchanged.
C9_LogoutByFingerprint ==
  \A cookie \in CookieValues :
    LET out == logout(users, [refreshToken |-> cookie], "none") IN
    /\ Cardinality(Matching(cookie)) <= 1
    /\ DOMAIN out.users = DOMAIN users
    /\ \A u \in DOMAIN users :
         out.users[u] = IF u \in Matching(cookie)
                          THEN [users[u] EXCEPT !.refreshToken = NoHash]
                          ELSE users[u]
    /\ cookie = NoCookie => out.calls = <<>>
    /\ Matching(cookie) = {} => out.users = users

C9_Witness ==
  /\ req.op = "logout"
  /\ track.revoked /\ track.superseded
  /\ req.cookies.refreshToken = track.t
  /\ \E u \in DOMAIN users : u # track.t.userId /\ users[u].refreshToken # NoHash
  /\ users[track.t.userId].refreshToken # NoHash

\* C10: a refresh, successful or not, leaves every stored refreshTokenHash
\* unchanged and neither sets nor clears the refreshToken cookie; on success
\* the only cookie it sets is accessToken.
C10_RefreshDoesNotRotate ==
  /\ req.op = "refresh" =>
       /\ "refreshToken" \notin DOMAIN res.cookies
       /\ res.cleared = {}
       /\ res.status = HTTP_OK => DOMAIN res.cookies = {"accessToken"}
  /\ \A cookie \in CookieValues, fault \in RefreshFaults :
       LET out == refresh(users, now, [refreshToken |-> cookie], fault) IN
       /\ out.users = users
       /\ "refreshToken" \notin DOMAIN out.res.cookies
       /\ out.res.cleared = {}
       /\ out.res.status = HTTP_OK => DOMAIN out.res.cookies = {"accessToken"}

C10_Witness ==
  /\ req.op = "refresh"
  /\ res.status = HTTP_OK
  /\ DOMAIN res.cookies = {"accessToken"}
  /\ users[req.cookies.refreshToken.userId].refreshToken = [kind |-> "sha256", of |-> req.cookies.refreshToken]
\* ------------------------------------------------------------------------
\* Properties of the access guard
\* ------------------------------------------------------------------------
\* the cookie is present, not empty, and a JWT signed with the access secret
\* that has not expired at the given time
GoodAccessToken(token, clock) ==
  /\ token \notin {NoCookie, EmptyCookie}
  /\ token.kind = "jwt"
  /\ token.secret = "JWT_SECRET"
  /\ clock < token.exp

Passed(out, token) ==
  /\ out.next = 1
  /\ out.calls = <<"jwt.verify", "next">>
  /\ out.user = [userId |-> token.userId, iat |-> token.iat, exp |-> token.exp]
  /\ out.res.status = 0

Denied(out) ==
  /\ out.next = 0
  /\ "next" \notin Range(out.calls)
  /\ out.user = NoUser
  /\ out.res.status = HTTP_UNAUTHORIZED

C13_TokenKindsNotInterchangeable ==
  /\ track.t # NoCookie =>
       /\ Denied(protect([accessToken |-> track.t], [authorization |-> NoCookie], now))
       /\ refresh(users, now, [refreshToken |-> AccessTokenOf(track.t)], "none").res.status
            = HTTP_UNAUTHORIZED
  /\ (req.op = "protect" /\ track.t # NoCookie /\ req.cookies.accessToken = track.t) =>
       res.status = HTTP_UNAUTHORIZED /\ "next" \notin Range(calls)
  /\ (req.op = "refresh" /\ track.t # NoCookie
        /\ req.cookies.refreshToken = AccessTokenOf(track.t)) =>
       res.status = HTTP_UNAUTHORIZED /\ "accessToken" \notin DOMAIN res.cookies

\* a refresh token that refresh would have accepted was shown to protect
C13_Witness ==
  /\ req.op = "protect"
  /\ track.t # NoCookie
  /\ req.cookies.accessToken = track.t
  /\ req.at < track.t.exp
  /\ \E u \in DOMAIN users : users[u].refreshToken = hashToken(track.t)
  /\ res.status = HTTP_UNAUTHORIZED

\* ------------------------------------------------------------------------
\* Properties of the listing filter
\* ------------------------------------------------------------------------
\* the filter the last listing passed to ClothingItem.find
SentFilter == buildFilters(req.user.userId, req.query)

DropKey(query, key) == [k \in DOMAIN query \ {key} |-> query[k]]

C15_FilterWhitelist ==
  (req.op = "getClothingItems" /\ "query" \in DOMAIN req) =>
    /\ DOMAIN SentFilter \subseteq {"owner", "name", "category", "color", "brand"}
    /\ SentFilter["owner"] = [cond |-> "eq", v |-> ToString(req.user.userId)]
    /\ \A key \in {"name", "category", "color", "brand"} :
         key \in DOMAIN SentFilter =>
           /\ key \in DOMAIN req.query
           /\ req.query[key].type = "string"
           /\ req.query[key].s # ""
    /\ SentFilter = buildFilters(req.user.userId,
                                 [k \in DOMAIN req.query \cap {"name", "category", "color", "brand"}
                                    |-> req.query[k]])
    /\ calls = <<"ClothingItem.find">>
    /\ res.status = HTTP_OK => res.items = find(items, SentFilter)

\* an object-valued name beside a valid color: only the color filtered
C15_Witness ==
  /\ req.op = "getClothingItems"
  /\ DOMAIN req.query = {"name", "color"}
  /\ req.query["name"] = Obj
  /\ req.query["color"] = Str("red")
  /\ res.status = HTTP_OK
  /\ res.items # {}

\* ------------------------------------------------------------------------
\* Properties of create and delete
\* ------------------------------------------------------------------------
\* C16: createClothingItem answers 400 'Name, category, and color are
\* required' whenever name, category or color is absent, with or without a
\* file, and then uploads nothing, creates no item and leaves every user's
\* item list as it was
C16_CreateValidation ==
  /\ \A userId \in UserIds, body \in ItemBodies, file \in BOOLEAN :
       (body.name = Absent \/ body.category = Absent \/ body.color = Absent) =>
         LET out == createClothingItem(TheDb, userId, body, file, "none")
         IN /\ out.res = ClothingResponse("createClothingItem", HTTP_BAD_REQUEST,
                                          "Name, category, and color are required")
            /\ out.calls = <<>>
            /\ out.db = TheDb
  /\ (res.op = "createClothingItem" /\ res.status = HTTP_BAD_REQUEST) =>
       /\ res.message = "Name, category, and color are required"
       /\ calls = <<>>
  /\ \A i \in DOMAIN items :
       items[i].name # Absent /\ items[i].category # Absent /\ items[i].color # Absent

C16_Witness ==
  /\ res.op = "createClothingItem"
  /\ res.status = HTTP_BAD_REQUEST
  /\ calls = <<>>
  /\ items # NoItems

\* how often a handler made a call
Count(made, call) == Cardinality({k \in DOMAIN made : made[k] = call})

\* the store and image calls of a delete that got past the lookup
AfterLookup == {"none", "destroy", "findByIdAndDelete", "updateOne"}

\* C17: a delete by the owner calls the image destroy exactly once, for the
\* image identifier stored on the item, when the item has one, and never
\* when it has none
C17_DeleteImageCleanup ==
  /\ \A userId \in UserIds, id \in DOMAIN items, fault \in AfterLookup :
       items[id].owner = userId =>
         LET out == deleteClothingItem(TheDb, userId, id, fault)
             stored == items[id].imagePublicId
         IN /\ Count(out.calls, "destroy") = IF stored # NoImage THEN 1 ELSE 0
            /\ (stored # NoImage /\ fault # "destroy") => out.db.assets = assets \ {stored}
            /\ stored = NoImage => out.db.assets = assets
  /\ (res.op = "deleteClothingItem" /\ res.status = HTTP_NO_CONTENT) =>
       Count(calls, "destroy") <= 1

\* an item with an image was deleted while another image stays hosted
C17_Witness ==
  /\ res.op = "deleteClothingItem"
  /\ res.status = HTTP_NO_CONTENT
  /\ Count(calls, "destroy") = 1
  /\ assets # {}
  /\ \E i \in DOMAIN items : items[i].imagePublicId \in assets

\* C18: once a delete by the owner has answered 204, the item is not in the
\* item store and its id is not in the owner's clothingItems list; the calls
\* were made in the order image destroy, item delete, list prune
C18_DeleteCascade ==
  /\ (res.op = "deleteClothingItem" /\ res.status = HTTP_NO_CONTENT) =>
       /\ req.params.id \notin DOMAIN items
       /\ req.params.id \notin Range(wardrobe[req.user.userId])
       /\ calls \in {<<"ClothingItem.findById", "destroy",
                       "ClothingItem.findByIdAndDelete", "User.updateOne">>,
                     <<"ClothingItem.findById",
                       "ClothingItem.findByIdAndDelete", "User.updateOne">>}
  /\ \A userId \in UserIds, id \in DOMAIN items :
       items[id].owner = userId =>
         LET atDelete == deleteClothingItem(TheDb, userId, id, "findByIdAndDelete")
             atPrune == deleteClothingItem(TheDb, userId, id, "updateOne")
         IN /\ atDelete.db.assets = assets \ {items[id].imagePublicId}
            /\ atDelete.db.items = items
            /\ atPrune.db.items = Without(items, id)
            /\ atPrune.db.wardrobe = wardrobe

\* the deleted id had been in the owner's list beside another item
C18_Witness ==
  /\ res.op = "deleteClothingItem"
  /\ res.status = HTTP_NO_CONTENT
  /\ Len(wardrobe[req.user.userId]) = 1
  /\ created = MaxItems
  /\ \A i \in DOMAIN items : items[i].owner = req.user.userId

\* ------------------------------------------------------------------------
\* Properties of register
\* ------------------------------------------------------------------------
\* a login that answered 200 for user id, set both cookies and stored the
\* fingerprint of the refresh token
LoggedIn(out, id) ==
  /\ out.res.status = HTTP_OK
  /\ out.res.userId = id
  /\ DOMAIN out.res.cookies = {"accessToken", "refreshToken"}
  /\ out.users[id].refreshToken = [kind |-> "sha256", of |-> out.res.cookies["refreshToken"]]

\* C19: for every email and password, once a register with them has answered
\* 201, a login with the same email and password answers 200, sets both
\* cookies and stores a fingerprint for that user: right after the register,
\* and at every later time for every registered user
C19_RegisterLoginRoundTrip ==
  /\ \A body \in Bodies :
       LET registered == register(users, body, "none", "none")
       IN registered.res.status = HTTP_CREATED =>
            LoggedIn(login(registered.users, now, body, "none", "none"),
                     registered.res.userId)
  /\ \A u \in DOMAIN users, body \in Bodies :
       (NormEmail(body.email) = users[u].email /\ body.password = users[u].password.of) =>
         LoggedIn(login(users, now, body, "none", "none"), u)
  /\ (req.op = "register" /\ res.status = HTTP_CREATED) =>
       /\ res.userId \in DOMAIN users
       /\ users[res.userId].password.of \in Passwords

\* the user who registered as A@x has logged in
C19_Witness ==
  /\ req.op = "login"
  /\ res.status = HTTP_OK
  /\ res.userId \in DOMAIN users
  /\ users[res.userId].email = "a@x"
  /\ users[res.userId].refreshToken = hashToken(res.cookies["refreshToken"])
  /\ now > 0

\* C20: register answers 400 'Email and password are required' when the email
\* or the password is absent, without hashing and without a store call, and
\* 409 'Email already exists' when the email is that of a user; in both cases
\* the user store is unchanged, and no two users ever have the same email
C20_RegisterFailures ==
  /\ \A body \in Bodies :
       LET out == register(users, body, "none", "none")
       IN /\ (body.email = Absent \/ body.password = Absent) =>
               /\ out.res = Response("register", HTTP_BAD_REQUEST,
                                     "Email and password are required")
               /\ out.calls = <<>>
               /\ out.users = users
          /\ (body.email # Absent /\ body.password # Absent
                /\ \E u \in DOMAIN users : users[u].email = NormEmail(body.email)) =>
               /\ out.res = Response("register", HTTP_CONFLICT, "Email already exists")
               /\ out.users = users
  /\ (req.op = "register" /\ res.message = "Email and password are required") =>
       res.status = HTTP_BAD_REQUEST /\ calls = <<>>
  /\ (req.op = "register" /\ res.status = HTTP_CONFLICT) =>
       res.message = "Email already exists"
  /\ \A u, v \in DOMAIN users : users[u].email = users[v].email => u = v

\* a second register with a taken email was refused while a user slot was free
C20_Witness ==
  /\ req.op = "register"
  /\ res.status = HTTP_CONFLICT
  /\ Cardinality(DOMAIN users) = 1

\* ------------------------------------------------------------------------
\* Properties of error handling
\* ------------------------------------------------------------------------
\* the status the reclassification of store errors gives an error name
Reclassified(errName) ==
  CASE errName = "ValidationError" -> HTTP_BAD_REQUEST
    [] errName = "CastError" -> HTTP_NOT_FOUND
    [] OTHER -> HTTP_INTERNAL_SERVER_ERROR

\* C21 (as claimed): when a store call throws inside a handler the response
\* is 400 for a validation failure, 404 for a cast failure and 500 for
\* anything else; so the clothing update and delete handlers answer 404 for
\* an item id that is no ObjectId, and 500 when their lookup fails otherwise
C21_StoreErrorReclassification ==
  \A userId \in UserIds, body \in UpdateBodies, file \in BOOLEAN :
    /\ updateClothingItem(TheDb, userId, BadId, body, file, "none").res.status
         = Reclassified("CastError")
    /\ deleteClothingItem(TheDb, userId, BadId, "none").res.status
         = Reclassified("CastError")
    /\ \A id \in ItemIds :
         /\ updateClothingItem(TheDb, userId, id, body, file, "findById").res.status
              = Reclassified("MongoNetworkError")
         /\ deleteClothingItem(TheDb, userId, id, "findById").res.status
              = Reclassified("MongoNetworkError")

\* ------------------------------------------------------------------------
\* Properties of interleaved requests
\* ------------------------------------------------------------------------
BothLoggedIn == \A p \in Procs : procs[p].pc = "done" /\ procs[p].res.status = HTTP_OK

\* the login whose store write came second, and the other one
LastWriter == CHOOSE p \in Procs : \A q \in Procs : procs[q].order <= procs[p].order
FirstWriter == CHOOSE p \in Procs : p # LastWriter

\* the cookie of the login that wrote first is refused by refresh
FirstIsRefused ==
  (req.op = "refresh" /\ req.cookies.refreshToken = procs[FirstWriter].refreshToken) =>
    res.status = HTTP_UNAUTHORIZED

\* C22 (as claimed): when two logins of one user interleave and both answer
\* with success, the stored fingerprint matches only the refresh token
\* written last, and a refresh with the other login's refresh token answers
\* 401
C22_LastLoginWins ==
  BothLoggedIn =>
    /\ users[RaceUser].refreshToken = hashToken(procs[LastWriter].refreshToken)
    /\ users[RaceUser].refreshToken # hashToken(procs[FirstWriter].refreshToken)
    /\ FirstIsRefused

\* C22 (amended): when two logins of one user interleave and both answer with
\* success, the stored fingerprint is that of the refresh token written last;
\* if the two logins signed in different seconds their refresh tokens differ
\* and a refresh with the other one answers 401, and if they signed in the
\* same second they issued one and the same token, which refresh accepts
\* until it expires
C22_LastDistinctLoginWins ==
  BothLoggedIn =>
    /\ users[RaceUser].refreshToken = hashToken(procs[LastWriter].refreshToken)
    /\ procs[FirstWriter].refreshToken.iat # procs[LastWriter].refreshToken.iat =>
         /\ users[RaceUser].refreshToken # hashToken(procs[FirstWriter].refreshToken)
         /\ FirstIsRefused
    /\ procs[FirstWriter].refreshToken.iat = procs[LastWriter].refreshToken.iat =>
         /\ procs[FirstWriter].refreshToken = procs[LastWriter].refreshToken
         /\ (req.op = "refresh" /\ req.at < procs[FirstWriter].refreshToken.exp) =>
              res.status = HTTP_OK

\* the login that signed later wrote first, answered 200, and its cookie is
\* refused before it expired
C22_Witness ==
  /\ BothLoggedIn
  /\ procs[FirstWriter].refreshToken.iat > procs[LastWriter].refreshToken.iat
  /\ req.op = "refresh"
  /\ req.cookies.refreshToken = procs[FirstWriter].refreshToken
  /\ req.at < procs[FirstWriter].refreshToken.exp
  /\ res.status = HTTP_UNAUTHORIZED

\* ------------------------------------------------------------------------
\* Two updates of one item
\* ------------------------------------------------------------------------
BothUpdated == \A p \in Procs : procs[p].pc = "done"

\* the fields the update of p wrote: those its dataToUpdate defines
Written(p) ==
  LET data == dataToUpdate(procs[p].body, procs[p].file, procs[p].publicId)
  IN {key \in DOMAIN data : key \in {"imageUrl", "imagePublicId"} \/ data[key] # Absent}

WrittenValue(p, key) == dataToUpdate(procs[p].body, procs[p].file, procs[p].publicId)[key]

\* C23 (as claimed): two updates of one item by its owner both answer 200
\* under every interleaving, and the stored item's fields are those of the
\* store write that happened last, the changes of the other update being
\* overwritten
C23_LastWriteWins ==
  BothUpdated =>
    /\ \A p \in Procs : procs[p].res.status = HTTP_OK
    /\ \A key \in Written(FirstWriter) \cup Written(LastWriter) :
         /\ key \in Written(LastWriter)
         /\ items[RaceItem][key] = WrittenValue(LastWriter, key)

\* C23 (amended): two updates of one item by its owner both answer 200 under
\* every interleaving, and the last write wins field by field: a field both
\* updates wrote holds the value of the write that happened last, a field
\* only one of them wrote holds that update's value whichever write came
\* last, and a field neither wrote keeps the value it had
C23_LastWriteWinsPerField ==
  BothUpdated =>
    /\ \A p \in Procs : procs[p].res.status = HTTP_OK
    /\ \A key \in DOMAIN items[RaceItem] :
         items[RaceItem][key] =
           IF key \in Written(LastWriter) THEN WrittenValue(LastWriter, key)
           ELSE IF key \in Written(FirstWriter) THEN WrittenValue(FirstWriter, key)
           ELSE procs[FirstWriter].item[key]

\* both updates read the item before either wrote, the first write set the
\* name and the last one only the color, and the name of the first write is
\* still stored
C23_Witness ==
  /\ BothUpdated
  /\ procs[LastWriter].item.name = "Tee"
  /\ "name" \in Written(FirstWriter) \ Written(LastWriter)
  /\ "color" \in Written(LastWriter)
  /\ items[RaceItem].name = WrittenValue(FirstWriter, "name")
  /\ items[RaceItem].color = WrittenValue(LastWriter, "color")


UploadFailedAfterDestroy ==
  <<"ClothingItem.findById", "destroy", "upload_stream">>

\* C25: an update with a new file on an item that has a stored image destroys
\* the old asset before the upload starts; if the upload then fails the
\* request answers 500 and the stored item still carries the imageUrl and
\* imagePublicId of the asset that was destroyed
C25_NoRollbackOnUploadFailure ==
  [][(req'.op = "updateClothingItem" /\ calls' = UploadFailedAfterDestroy) =>
       /\ res'.status = HTTP_INTERNAL_SERVER_ERROR
       /\ res'.message = "Internal server error"
       /\ req'.params.id \in DOMAIN items
       /\ items[req'.params.id].imagePublicId # NoImage
       /\ assets' = assets \ {items[req'.params.id].imagePublicId}
       /\ items' = items
       /\ items'[req'.params.id].imageUrl = secureUrl(items[req'.params.id].imagePublicId)
       /\ uploads' = uploads]_vars

\* an upload failed after the old image of the item was destroyed: the item
\* still names the image, which is hosted no more
C25_Witness ==
  /\ req.op = "updateClothingItem"
  /\ calls = UploadFailedAfterDestroy
  /\ res.status = HTTP_INTERNAL_SERVER_ERROR
  /\ items[req.params.id].imagePublicId # NoImage
  /\ items[req.params.id].imagePublicId \notin assets
  /\ items[req.params.id].imageUrl = secureUrl(items[req.params.id].imagePublicId)


\* where a call stands among the calls a handler made (0 when it was not made)
Position(made, call) ==
  IF \E k \in DOMAIN made : made[k] = call
    THEN CHOOSE k \in DOMAIN made : made[k] = call
    ELSE 0

\* C26: a create with a file uploads the image before it writes the item: the
\* upload is the first call and the item is created after it; when the upload
\* fails the request answers 500 'Internal server error', no further call is
\* made, no item is created and every user's item list is as it was
C26_CreateUploadsFirst ==
  /\ \A userId \in UserIds, body \in ItemBodies :
       CompleteItem(body) =>
         /\ LET out == createClothingItem(TheDb, userId, body, TRUE, "upload")
            IN /\ out.res = ClothingResponse("createClothingItem",
                                             HTTP_INTERNAL_SERVER_ERROR, "Internal server error")
               /\ out.calls = <<"upload_stream">>
               /\ out.db.items = items
               /\ out.db.wardrobe = wardrobe
               /\ out.db.created = created
         /\ \A fault \in {"none", "create", "findByIdAndUpdate"} :
              LET out == createClothingItem(TheDb, userId, body, TRUE, fault)
              IN /\ Position(out.calls, "upload_stream") = 1
                 /\ Position(out.calls, "ClothingItem.create") = 2
                 /\ out.db.uploads = uploads + 1
  /\ (req.op = "createClothingItem" /\ calls = <<"upload_stream">>) =>
       res.status = HTTP_INTERNAL_SERVER_ERROR /\ res.message = "Internal server error"

\* the upload of a create failed while the user already had an item: the
\* request answered 500 and made no call after the upload
C26_Witness ==
  /\ req.op = "createClothingItem"
  /\ calls = <<"upload_stream">>
  /\ res.status = HTTP_INTERNAL_SERVER_ERROR
  /\ items # NoItems
  /\ created < MaxItems


\* ------------------------------------------------------------------------
\* The item lists of the users
\* ------------------------------------------------------------------------
Listed(lists, userId, id) == \E k \in DOMAIN lists[userId] : lists[userId][k] = id

\* an id is in a user's list exactly when the item exists with that owner
ListsMatchItems(its, lists) ==
  \A userId \in UserIds, id \in ItemIds :
    Listed(lists, userId, id) <=> (id \in DOMAIN its /\ its[id].owner = userId)

\* the request just answered failed at its last store call, the one that
\* brings the list in line with the item store: the push of a create or the
\* pull of a delete
ListWriteFailed(request, response, made) ==
  /\ response.status = HTTP_INTERNAL_SERVER_ERROR
  /\ made # <<>>
  /\ \/ request.op = "createClothingItem" /\ made[Len(made)] = "User.findByIdAndUpdate"
     \/ request.op = "deleteClothingItem" /\ made[Len(made)] = "User.updateOne"

\* C27 (as claimed): after any sequence of completed creates and deletes,
\* requests in which a store or image call failed part-way included, an item
\* id is in a user's clothingItems list if and only if an item with that id
\* and that owner is in the item store
C27_ListsAlwaysMatchItems == ListsMatchItems(items, wardrobe)

\* C27 (amended): an id is listed by at most one user, an id that is listed
\* and whose item exists is listed by the item's owner, and a request keeps
\* the lists and the item store matching unless its last store call fails:
\* a create whose push into the list fails leaves an item that no list names,
\* and a delete whose pull from the list fails leaves a listed id without an
\* item
C27_ListsMatchUnlessListWriteFailed ==
  [][/\ \A userId \in UserIds, id \in ItemIds :
          Listed(wardrobe', userId, id) =>
            /\ id \in DOMAIN items' => items'[id].owner = userId
            /\ \A other \in UserIds \ {userId} : ~Listed(wardrobe', other, id)
     /\ (ListsMatchItems(items, wardrobe) /\ ~ListWriteFailed(req', res', calls')) =>
          ListsMatchItems(items', wardrobe')
     /\ (ListsMatchItems(items, wardrobe) /\ ListWriteFailed(req', res', calls')) =>
          /\ ~ListsMatchItems(items', wardrobe')
          /\ req'.op = "createClothingItem" =>
               \E id \in DOMAIN items' \ DOMAIN items :
                 \A userId \in UserIds : ~Listed(wardrobe', userId, id)
          /\ req'.op = "deleteClothingItem" =>
               /\ req'.params.id \notin DOMAIN items'
               /\ Listed(wardrobe', req'.user.userId, req'.params.id)]_vars

\* a delete has failed between the image destroy and the removal of the
\* item, and the lists still match the item store
C27_Witness ==
  /\ req.op = "deleteClothingItem"
  /\ res.status = HTTP_INTERNAL_SERVER_ERROR
  /\ calls = <<"ClothingItem.findById", "destroy", "ClothingItem.findByIdAndDelete">>
  /\ items # NoItems
  /\ ListsMatchItems(items, wardrobe)


\* ------------------------------------------------------------------------
\* The cookies of a login
\* ------------------------------------------------------------------------
\* C28: login sets the accessToken and refreshToken cookies only after the
\* store write of the refresh token's fingerprint has succeeded: a response
\* that sets them was preceded by the write and the stored fingerprint is
\* that of the refreshToken cookie; when the write fails login answers 500,
\* sets no cookie and leaves the stored fingerprint as it was
C28_CookiesAfterSessionPersisted ==
  /\ \A body \in Bodies, errName \in UpdateErrNames :
       LET out == login(users, now, body, "findByIdAndUpdate", errName)
           ok == login(users, now, body, "none", "none")
       IN ok.res.status = HTTP_OK =>
            /\ out.calls = <<"User.findOne", "bcrypt.compare", "User.findByIdAndUpdate">>
            /\ out.res.status = HTTP_INTERNAL_SERVER_ERROR
            /\ out.res.cookies = NoCookies
            /\ out.users = users
            /\ ok.calls = out.calls
            /\ DOMAIN ok.res.cookies = {"accessToken", "refreshToken"}
            /\ ok.users[ok.res.userId].refreshToken = hashToken(ok.res.cookies["refreshToken"])
  /\ req.op = "login" =>
       /\ res.status # HTTP_OK => res.cookies = NoCookies
       /\ res.cookies # NoCookies =>
            /\ calls[Len(calls)] = "User.findByIdAndUpdate"
            /\ users[res.userId].refreshToken = hashToken(res.cookies["refreshToken"])

\* the fingerprint write of a login with the right password has failed while
\* the user had a session: 500, no cookie, and the session is still there
C28_Witness ==
  /\ req.op = "login"
  /\ calls = <<"User.findOne", "bcrypt.compare", "User.findByIdAndUpdate">>
  /\ res.status = HTTP_INTERNAL_SERVER_ERROR
  /\ res.cookies = NoCookies
  /\ \E u \in DOMAIN users : users[u].refreshToken # NoHash


\* ------------------------------------------------------------------------
\* Access tokens and the stored session
\* ------------------------------------------------------------------------
\* C29: protect decides on the accessToken cookie alone and never on the
\* stored session: the access token a login issued is accepted exactly until
\* it expires, whether or not a logout has cleared the session or a later
\* login has replaced it since
C29_LogoutKeepsAccessTokens ==
  /\ track.t # NoCookie =>
       LET accessToken == AccessTokenOf(track.t)
           out == protect([accessToken |-> accessToken], [authorization |-> NoCookie], now)
       IN /\ out.next = 1 <=> now < accessToken.exp
          /\ out.next = 1 => out.user.userId = track.t.userId /\ out.res.status = 0
          /\ out.next = 0 => out.res.status = HTTP_UNAUTHORIZED
  /\ (req.op = "protect" /\ track.t # NoCookie
        /\ req.cookies.accessToken = AccessTokenOf(track.t)) =>
       IF req.at < AccessTokenOf(track.t).exp
         THEN calls = <<"jwt.verify", "next">> /\ req.user.userId = track.t.userId
         ELSE res.status = HTTP_UNAUTHORIZED

\* after the logout that cleared the session of the followed login, protect
\* has let its access token through
C29_Witness ==
  /\ track.t # NoCookie
  /\ track.revoked
  /\ users[track.t.userId].refreshToken = NoHash
  /\ req.op = "protect"
  /\ req.cookies.accessToken = AccessTokenOf(track.t)
  /\ calls = <<"jwt.verify", "next">>
  /\ req.user.userId = track.t.userId


\* ------------------------------------------------------------------------
\* Two deletes of one item
\* ------------------------------------------------------------------------
BothDeleted == \A p \in Procs : procs[p].pc = "done"

Answered(status) == {p \in Procs : procs[p].pc = "done" /\ procs[p].res.status = status}

\* the destroy calls the two deletes have issued
Destroys == procs["p"].destroys + procs["q"].destroys

\* the delete of p read the item before it was removed
ReadItem(p) == procs[p].item # NoItems

\* C30 (as claimed): under every interleaving of two deletes by the owner of
\* one item that has a stored image, the image destroy for that identifier
\* is issued at most once in total and at most one of the two requests
\* answers 204
C30_OneDestroyOne204 ==
  /\ Destroys <= 1
  /\ Cardinality(Answered(HTTP_NO_CONTENT)) <= 1

\* C30 (amended): of two deletes by the owner of one item that has a stored
\* image, each issues the image destroy at most once, and does so only if it
\* read the item before the other removed it; a delete answers 404 exactly
\* when it read after the removal, and 204 only when the item is gone, its
\* image is destroyed and its id is out of the owner's list; when both read
\* the item before either removed it and no call fails, the destroy is
\* issued twice and both answer 204; when no call fails at least one
\* answers 204; another item of the owner, its image and its place in the
\* list are left alone
C30_EachDeleteDestroysOnce ==
  /\ \A p \in Procs :
       /\ procs[p].destroys <= 1
       /\ procs[p].destroys = 1 => ReadItem(p)
       /\ procs[p].pc = "done" =>
            /\ procs[p].res.status
                 \in {HTTP_NO_CONTENT, HTTP_NOT_FOUND, HTTP_INTERNAL_SERVER_ERROR}
            /\ procs[p].res.status = HTTP_NOT_FOUND <=> ~ReadItem(p)
            /\ procs[p].res.status = HTTP_NO_CONTENT =>
                 /\ RaceItem \notin DOMAIN items
                 /\ RaceImage \notin assets
                 /\ ~\E k \in DOMAIN wardrobe[RaceUser] : wardrobe[RaceUser][k] = RaceItem
  /\ created = OtherItem =>
       /\ OtherItem \in DOMAIN items
       /\ OtherImage \in assets
       /\ \E k \in DOMAIN wardrobe[RaceUser] : wardrobe[RaceUser][k] = OtherItem
  /\ (BothDeleted /\ Answered(HTTP_INTERNAL_SERVER_ERROR) = {}) =>
       /\ Answered(HTTP_NO_CONTENT) # {}
       /\ (\A p \in Procs : ReadItem(p)) =>
            Destroys = 2 /\ Answered(HTTP_NO_CONTENT) = Procs

\* both deletes read the item before either removed it: the destroy was
\* issued twice and both answered 204
C30_Witness ==
  /\ BothDeleted
  /\ \A p \in Procs : ReadItem(p)
  /\ Destroys = 2
  /\ Answered(HTTP_NO_CONTENT) = Procs
  /\ RaceItem \notin DOMAIN items


====
